---- MODULE Spec2Model ----
(***************************************************************************)
(* DeepConsensus: parameter derivation (models/model_utils.py), the        *)
(* inference summary writer and the example codec, as state machines.      *)
(*                                                                         *)
(* Python values are modelled as follows.                                  *)
(*   dict / ConfigDict  a function whose DOMAIN is the set of keys present *)
(*   str that is parsed a sequence of one-character strings                *)
(*   Optional[str]      a record [none, str]                               *)
(*   raise / assert     the "err" field of a derivation state              *)
(***************************************************************************)
EXTENDS Bags, Integers, Sequences, FiniteSets, TLC

(***************************************************************************)
(* Bounds of the model.                                                    *)
(***************************************************************************)
MaxPassesBound == 8
MaxGpus == 2
MaxTopoDim == 2
MaxCalls == 2
MaxBatch == 2
MaxTpuScale == 2
MaxMetric == 2
MaxSubreads == 2
MaxWidth == 2
MaxMvRecords == 2
MaxFwdPasses == 2
MaxDraw == 1
MaxStatAccs == 2
MaxStatData == 3
MaxStatValue == 1
MaxStatGroups == 2
MaxSeqLen == 3
MaxWindows == 2
MaxExamples == 2
MaxCsvRows == 3

(***************************************************************************)
(* Python helpers.                                                         *)
(***************************************************************************)
NoneStr == [none |-> TRUE, str |-> <<>>]
Str(s) == [none |-> FALSE, str |-> s]

\* Python truthiness of an Optional[str]: None and '' are falsy.
Truthy(o) == ~o.none /\ Len(o.str) > 0

\* bool * int, as in (params.use_bases * params.per_base_hidden_size).
BoolTimes(b, n) == IF b THEN n ELSE 0

PyMax(a, b) == IF a >= b THEN a ELSE b

\* dict assignment d[k] = v.
SetKey(d, k, v) == [x \in (DOMAIN d) \cup {k} |-> IF x = k THEN v ELSE d[x]]

\* d.update(e).
Update(d, e) == [k \in (DOMAIN d) \cup (DOMAIN e) |->
                   IF k \in DOMAIN e THEN e[k] ELSE d[k]]

Digits == <<"0", "1", "2", "3", "4", "5", "6", "7", "8", "9">>
DigitChars == {Digits[i] : i \in 1..10}
DigitVal(c) == (CHOOSE i \in 1..10 : Digits[i] = c) - 1

\* str(n) for a small integer n.
RECURSIVE NatToStr(_)
NatToStr(n) == IF n < 10 THEN <<Digits[n + 1]>>
               ELSE NatToStr(n \div 10) \o <<Digits[(n % 10) + 1]>>
IntToStr(n) == IF n < 0 THEN <<"-">> \o NatToStr(-n) ELSE NatToStr(n)

\* s.split(sep) for a one-character separator: the list of the pieces
\* between consecutive separators.
Split(s, sep) ==
  LET seps == {i \in 1..Len(s) : s[i] = sep}
      n == Cardinality(seps)
      Pos(k) == IF k = 0 THEN 0
                ELSE IF k = n + 1 THEN Len(s) + 1
                ELSE CHOOSE i \in seps : Cardinality({j \in seps : j < i}) = k - 1
  IN [k \in 1..(n + 1) |-> SubSeq(s, Pos(k - 1) + 1, Pos(k) - 1)]

\* s.strip() for blanks.
RECURSIVE LStrip(_)
LStrip(s) == IF Len(s) > 0 /\ s[1] = " " THEN LStrip(Tail(s)) ELSE s
RECURSIVE RStrip(_)
RStrip(s) == IF Len(s) > 0 /\ s[Len(s)] = " "
             THEN RStrip(SubSeq(s, 1, Len(s) - 1)) ELSE s
Strip(s) == RStrip(LStrip(s))

RECURSIVE DigitsVal(_, _)
DigitsVal(s, acc) == IF Len(s) = 0 THEN acc
                     ELSE DigitsVal(Tail(s), acc * 10 + DigitVal(s[1]))

\* int(s): blanks around the literal are ignored, one optional sign, then at
\* least one decimal digit; anything else raises ValueError.
PyInt(s) ==
  LET t == Strip(s)
      signed == Len(t) > 0 /\ t[1] \in {"-", "+"}
      body == IF signed THEN Tail(t) ELSE t
      ok == Len(body) > 0 /\ \A i \in 1..Len(body) : body[i] \in DigitChars
  IN IF ~ok THEN [err |-> TRUE, val |-> 0]
     ELSE [err |-> FALSE,
           val |-> IF signed /\ t[1] = "-" THEN 0 - DigitsVal(body, 0)
                   ELSE DigitsVal(body, 0)]

(***************************************************************************)
(* tf_example_utils: the row layout of a flat tensor record.               *)
(***************************************************************************)
SnRows == 4
CcsRows == 1

\* get_indices(max_passes): half-open row ranges of the six channels, in the
\* order bases, pw, ip, strand, ccs, sn.
get_indices(max_passes) ==
  [base   |-> <<0, max_passes>>,
   pw     |-> <<max_passes, max_passes * 2>>,
   ip     |-> <<max_passes * 2, max_passes * 3>>,
   strand |-> <<max_passes * 3, max_passes * 4>>,
   ccs    |-> <<max_passes * 4, max_passes * 4 + CcsRows>>,
   sn     |-> <<max_passes * 4 + CcsRows, max_passes * 4 + CcsRows + SnRows>>]

get_total_rows(max_passes) == get_indices(max_passes).sn[2]

(***************************************************************************)
(* model_utils.py: the environment modify_params reads.                    *)
(***************************************************************************)
\* train_path of a configuration preset, and the one set_dataset derives.
CfgTrainPath == "cfg/train"
DsTrainPath == "tf_examples/ds/train"
TrainPaths == {CfgTrainPath, DsTrainPath}

SetDatasetMaxPasses == 20

\* misc.get_model_params(transformer_model_size, num_gpus): the base
\* transformer hyperparameter preset, selected by size and by num_gpus > 1.
get_model_params(size, gpus) ==
  [default_batch_size |-> IF size = "big" THEN 4096 ELSE 2048,
   hidden_size |-> IF size = "big" THEN 1024 ELSE 512,
   max_length |-> 256,
   num_heads |-> IF size = "big" THEN 16 ELSE 8,
   learning_rate_warmup_steps |-> IF gpus > 1 THEN 8000 ELSE 16000]

\* The shape field [hidden_size, max_length, channels] of the first record
\* under a sharded path.
RecordShape(path) == IF path = CfgTrainPath THEN <<85, 100, 1>>
                     ELSE <<85, 120, 1>>

\* Variant of get_record_shape that falls back to an empty default shape.
get_record_shape_Default(path, shards) ==
  IF shards[path] = 0 THEN [err |-> "", shape |-> <<0, 0, 0>>]
  ELSE [err |-> "", shape |-> RecordShape(path)]

\* get_record_shape: glob the prefix, build the sharded file spec from the
\* number of matches and read the first record.  With no match there is no
\* first record: the read raises.
get_record_shape(path, shards) ==
  IF shards[path] = 0 THEN [err |-> "NoRecords", shape |-> <<>>]
  ELSE [err |-> "", shape |-> RecordShape(path)]

extract_max_length(path, shards) ==
  LET r == get_record_shape(path, shards)
  IN [err |-> r.err, val |-> IF r.err = "" THEN r.shape[2] ELSE 0]

extract_example_height(path, shards) ==
  LET r == get_record_shape(path, shards)
  IN [err |-> r.err, val |-> IF r.err = "" THEN r.shape[1] ELSE 0]

\* set_dataset: the four paths are assigned before counts.json is opened.
set_dataset(p, counts_ok) ==
  LET p1 == SetKey(SetKey(SetKey(SetKey(p,
              "train_path", DsTrainPath),
              "eval_path", "tf_examples/ds/eval"),
              "hard_eval_path", "tf_examples/ds/hard_test/deepconsensus"),
              "test_path", "tf_examples/ds/test")
  IN IF ~counts_ok THEN [p |-> p1, err |-> "IOError"]
     ELSE [p |-> SetKey(SetKey(SetKey(p1,
                   "train_data_size", 1000),
                   "eval_data_size", 100),
                   "max_passes", SetDatasetMaxPasses),
           err |-> ""]

\* 'transformer' in params.model_name, over the names get_model accepts.
ModelNames == {"fc", "conv_net", "transformer", "transformer_learn_values"}
IsTransformerFamily(name) == name \in {"transformer", "transformer_learn_values"}

\* Variant of ScaleBatchSize that counts one core per chip.
ScaleBatchSize_OneCore(p, gpus, tpu, tpu_topology) ==
  IF gpus > 0 THEN
    IF Truthy(tpu) THEN [p |-> p, err |-> "AssertionError"]
    ELSE [p |-> SetKey(p, "batch_size", p["batch_size"] * gpus), err |-> ""]
  ELSE IF ~tpu.none THEN
    LET p1 == SetKey(p, "batch_size", p["batch_size"] * p["tpu_scale_factor"])
    IN IF tpu_topology.none THEN [p |-> p1, err |-> "AssertionError"]
       ELSE LET pieces == Split(tpu_topology.str, "x")
                parts == [i \in 1..Len(pieces) |-> PyInt(pieces[i])]
            IN IF \E i \in 1..Len(parts) : parts[i].err
                 THEN [p |-> p1, err |-> "ValueError"]
               ELSE IF Len(parts) # 2 THEN [p |-> p1, err |-> "AssertionError"]
               ELSE [p |-> SetKey(p1, "batch_size",
                                  p1["batch_size"] * parts[1].val * parts[2].val),
                     err |-> ""]
  ELSE [p |-> p, err |-> ""]

\* Lines 142-164: batch-size scaling by the hardware in use.
ScaleBatchSize(p, gpus, tpu, tpu_topology) ==
  IF gpus > 0 THEN
    IF Truthy(tpu) THEN [p |-> p, err |-> "AssertionError"]
    ELSE [p |-> SetKey(p, "batch_size", p["batch_size"] * gpus), err |-> ""]
  ELSE IF ~tpu.none THEN
    LET p1 == SetKey(p, "batch_size", p["batch_size"] * p["tpu_scale_factor"])
    IN IF tpu_topology.none THEN [p |-> p1, err |-> "AssertionError"]
       ELSE LET pieces == Split(tpu_topology.str, "x")
                parts == [i \in 1..Len(pieces) |-> PyInt(pieces[i])]
            IN IF \E i \in 1..Len(parts) : parts[i].err
                 THEN [p |-> p1, err |-> "ValueError"]
               ELSE IF Len(parts) # 2 THEN [p |-> p1, err |-> "AssertionError"]
               ELSE LET num_cores_used == parts[1].val * parts[2].val * 2
                    IN [p |-> SetKey(p1, "batch_size",
                                     p1["batch_size"] * num_cores_used),
                        err |-> ""]
  ELSE [p |-> p, err |-> ""]

\* Variant of DeriveHiddenSize that counts one signal-to-noise row.
DeriveHiddenSize_OneSnRow(p) ==
  LET h == IF p["model_name"] = "transformer_learn_values"
           THEN (p["max_passes"] * (
                   BoolTimes(p["use_bases"], p["per_base_hidden_size"]) +
                   BoolTimes(p["use_pw"], p["pw_hidden_size"]) +
                   BoolTimes(p["use_ip"], p["ip_hidden_size"]) +
                   BoolTimes(p["use_strand"], p["strand_hidden_size"]) +
                   BoolTimes(p["use_dnabert"], p["dnabert_desired_hidden_size"])))
                + BoolTimes(p["use_sn"], p["sn_hidden_size"])
                + BoolTimes(p["use_ccs"], p["per_base_hidden_size"])
           ELSE get_total_rows(p["max_passes"])
  IN SetKey(p, "hidden_size",
            IF IsTransformerFamily(p["model_name"]) /\ h % 2 # 0
            THEN h + 1 ELSE h)

\* Lines 169-182: hidden_size from the enabled channels or the row layout,
\* made even for the transformer family.
DeriveHiddenSize(p) ==
  LET h == IF p["model_name"] = "transformer_learn_values"
           THEN (p["max_passes"] * (
                   BoolTimes(p["use_bases"], p["per_base_hidden_size"]) +
                   BoolTimes(p["use_pw"], p["pw_hidden_size"]) +
                   BoolTimes(p["use_ip"], p["ip_hidden_size"]) +
                   BoolTimes(p["use_strand"], p["strand_hidden_size"]) +
                   BoolTimes(p["use_dnabert"], p["dnabert_desired_hidden_size"])))
                + BoolTimes(p["use_sn"], p["sn_hidden_size"] * 4)
                + BoolTimes(p["use_ccs"], p["per_base_hidden_size"])
           ELSE get_total_rows(p["max_passes"])
  IN SetKey(p, "hidden_size",
            IF IsTransformerFamily(p["model_name"]) /\ h % 2 # 0
            THEN h + 1 ELSE h)

\* Variant of ModelFixUps that floors the derived hidden_size instead.
ModelFixUps_FloorDerived(p) ==
  IF p["model_name"] = "conv_net"
    THEN SetKey(p, "hidden_size", PyMax(32, p["hidden_size"]))
  ELSE IF p["model_name"] = "transformer"
    THEN SetKey(p, "default_batch_size", p["batch_size"])
  ELSE IF p["model_name"] = "transformer_learn_values"
    THEN LET p1 == SetKey(p, "default_batch_size", p["batch_size"])
         IN IF p1["condense_transformer_input"]
            THEN SetKey(p1, "hidden_size", p1["transformer_input_size"])
            ELSE p1
  ELSE p

\* Lines 184-197: model-specific parameters.
ModelFixUps(p) ==
  IF p["model_name"] = "conv_net"
    THEN SetKey(p, "hidden_size", PyMax(32, p["max_passes"]))
  ELSE IF p["model_name"] = "transformer"
    THEN SetKey(p, "default_batch_size", p["batch_size"])
  ELSE IF p["model_name"] = "transformer_learn_values"
    THEN LET p1 == SetKey(p, "default_batch_size", p["batch_size"])
         IN IF p1["condense_transformer_input"]
            THEN SetKey(p1, "hidden_size", p1["transformer_input_size"])
            ELSE p1
  ELSE p

\* Variant of MergeTransformerParams that lets the preset win.
MergeTransformerParams_Overwrite(p, gpus) ==
  IF IsTransformerFamily(p["model_name"])
  THEN Update(p, get_model_params(p["transformer_model_size"], gpus))
  ELSE p

\* Lines 198-204: only hyperparameters that do not exist yet are added.
MergeTransformerParams(p, gpus) ==
  IF IsTransformerFamily(p["model_name"])
  THEN LET transformer_params ==
             get_model_params(p["transformer_model_size"], gpus)
       IN [k \in (DOMAIN p) \cup (DOMAIN transformer_params) |->
             IF k \in DOMAIN p THEN p[k] ELSE transformer_params[k]]
  ELSE p

\* modify_params: the whole derivation.  An error leaves params as mutated
\* up to the failing line.  "derived" is hidden_size as it stands after line
\* 182, before the model-specific parameters are set (0 when not reached);
\* "premerge" is params as it stands before line 198.
modify_params(p0, gpus, tpu, tpu_topology, shards, counts_ok) ==
  LET s1 == IF "tf_dataset" \in DOMAIN p0 /\ p0["tf_dataset"] # ""
            THEN set_dataset(p0, counts_ok)
            ELSE [p |-> p0, err |-> ""]
      s2 == ScaleBatchSize(s1.p, gpus, tpu, tpu_topology)
      ml == extract_max_length(s2.p["train_path"], shards)
      p3 == SetKey(s2.p, "max_length", ml.val)
      p4 == DeriveHiddenSize(p3)
      p5 == ModelFixUps(p4)
      p6 == MergeTransformerParams(p5, gpus)
      Raised(p, e) == [p |-> p, err |-> e, derived |-> 0, premerge |-> p]
  IN IF s1.err # "" THEN Raised(s1.p, s1.err)
     ELSE IF s2.err # "" THEN Raised(s2.p, s2.err)
     ELSE IF ml.err # "" THEN Raised(s2.p, ml.err)
     ELSE [p |-> p6, err |-> "", derived |-> p4["hidden_size"],
           premerge |-> p5]

(***************************************************************************)
(* State.                                                                  *)
(***************************************************************************)
VARIABLES
  params,        \* the ConfigDict handed to modify_params
  num_gpus,      \* len(tf.config.experimental.list_physical_devices('GPU'))
  tpu,           \* the tpu argument of modify_params
  tpu_topology,  \* the tpu_topology argument of modify_params
  shards,        \* number of files matching each sharded path prefix
  counts_ok,     \* whether counts.json of the dataset can be read
  mp_log,        \* one entry per modify_params call made so far
  inf_pc,        \* position in run_inference_and_write_results
  inf_params,    \* the params it was called with
  eval_paths,    \* its local eval_paths
  lines_to_write,  \* its local lines_to_write
  metrics_names, \* model.metrics_names
  logs_file,     \* what has been written to inference.csv
  inf_histories, \* what model.evaluate returned, call by call
  names_read_at, \* evaluations completed when metrics_names was read
  codec_pc,      \* position in the encode / serialize / parse chain
  dc_input,      \* the ConsensusInputRecord being encoded
  codec_params,  \* max_passes, hidden_size and max_length of the run
  tf_example,    \* the flat tensor example built from dc_input
  serialized_example,  \* its serialized bytes
  parsed_output  \* what the parse stage emitted

mpVars == <<params, num_gpus, tpu, tpu_topology, shards, counts_ok, mp_log>>
infVars == <<inf_pc, inf_params, eval_paths, lines_to_write, metrics_names,
             logs_file, inf_histories, names_read_at>>
codecVars == <<codec_pc, dc_input, codec_params, tf_example,
               serialized_example, parsed_output>>

\* The majority-vote command line (run_majority_vote_model.py).
VARIABLES
  mv_pc,       \* position in main and in the run of the pipeline
  mv_flags,    \* FLAGS as parsed from the command line
  mv_matches,  \* number of files matching --input_tfrecords_path
  mv_hard,     \* per input record: the vote disagrees with the label
  mv_stages,   \* the transforms pipeline(root) applied, in order
  mv_at,       \* per input record: number of stages it has passed
  mv_log,      \* per input record: the stages that processed it
  mv_counted,  \* records the match counters have seen
  mv_sink,     \* records handed to write_hard_ex
  mv_files     \* the files the run left behind

mvVars == <<mv_pc, mv_flags, mv_matches, mv_hard, mv_stages, mv_at, mv_log,
            mv_counted, mv_sink, mv_files>>

\* The forward pass of the networks (networks.py).
VARIABLES
  fwd_pc,      \* position: before the call, after it, after decoding
  fwd_params,  \* the params the model was built from
  fwd_input,   \* shape of the input batch
  fwd_out,     \* what model(inputs) returned or raised
  fwd_record   \* the prediction and quality string attached to the record

fwdVars == <<fwd_pc, fwd_params, fwd_input, fwd_out, fwd_record>>

\* The Stats combiner and its CSV sink (model_inference_transforms).
VARIABLES
  st_pc,       \* combining, extracted, written, read
  st_data,     \* the input records: a group and a metric value each
  st_pending,  \* inputs no accumulator has taken yet
  st_accs,     \* per group: the accumulators in flight
  st_merges,   \* merges of two non-empty accumulators so far
  st_out,      \* per group: the combiner's output
  st_csv,      \* content of the .stat.csv file
  st_read      \* the file as read back

stVars == <<st_pc, st_data, st_pending, st_accs, st_merges, st_out, st_csv,
            st_read>>

\* The scalar analysis functions (model_inference_transforms).
VARIABLES
  an_str1,  \* first string, also the sequence of homopolymer_content
  an_str2,  \* second string of edit_distance
  an_ed,    \* the edit distance, once computed
  an_hc,    \* the homopolymer content, once computed
  an_done   \* the functions that have returned

anVars == <<an_str1, an_str2, an_ed, an_hc, an_done>>

\* The stitching pipeline (postprocess.stitch_predictions).
VARIABLES
  sp_input,   \* the windowed predictions, by molecule and window
  sp_groups,  \* per molecule: its windows in the order they arrived in
  sp_fastq    \* the records of the full_predictions file

spVars == <<sp_input, sp_groups, sp_fastq>>

\* The review generator (utils.colab_utils).
VARIABLES
  cb_pc,          \* created, running, raised, exhausted
  cb_args,        \* dc_errors_only, output_diff_ccs, filter_fn given or not
  cb_checkpoint,  \* what each way of loading the checkpoint does
  cb_params,      \* the caller's configuration object
  cb_loaded,      \* the loading calls made and the error that escaped
  cb_seen,        \* the examples the dataset has delivered, in order
  cb_yielded      \* the examples yielded, in order

cbVars == <<cb_pc, cb_args, cb_checkpoint, cb_params, cb_loaded, cb_seen,
            cb_yielded>>

\* The result table (utils.colab_utils.get_results_df).
VARIABLES
  gr_pc,           \* called, returned, raised
  gr_experiments,  \* the experiment list
  gr_files,        \* the inference.csv files the pattern can match
  gr_out           \* the table returned, or the exception raised

grVars == <<gr_pc, gr_experiments, gr_files, gr_out>>

\* The base strings of one example (utils.colab_utils.convert_to_bases).
VARIABLES
  cv_pc,        \* example, converted
  cv_dc_input,  \* the record the example was encoded from
  cv_example,   \* rows, label, prediction and max_passes
  cv_out        \* what convert_to_bases returns

cvVars == <<cv_pc, cv_dc_input, cv_example, cv_out>>

\* An inference.csv written and read back (run_inference_and_write_results,
\* get_results_df).
VARIABLES
  rb_pc,         \* called, written, returned, raised
  rb_params,     \* eval_path and hard_eval_path
  rb_histories,  \* what model.evaluate returned for each dataset
  rb_file,       \* the text of inference.csv
  rb_out         \* the table returned, or the exception raised

rbVars == <<rb_pc, rb_params, rb_histories, rb_file, rb_out>>

\* A generator of the analysis toolkit and its caller
\* (utils.colab_utils.dataset_generator_fn, run_models_and_view_predictions).
VARIABLES
  dg_pc,       \* created, running, exhausted
  dg_call,     \* which generator, and whether filter_fn was given
  dg_given,    \* the params as the caller set them before the call
  dg_params,   \* the caller's params object
  dg_frozen,   \* the generator's FrozenConfigDict
  dg_seen,     \* the records the dataset has delivered
  dg_yielded   \* the records yielded

dgVars == <<dg_pc, dg_call, dg_given, dg_params, dg_frozen, dg_seen,
            dg_yielded>>

\* The variables of the subsystems modelled after the codec, and for each
\* of them the variables of all the others.
laterVars == <<mvVars, fwdVars, stVars, anVars, spVars, cbVars, grVars, cvVars, rbVars, dgVars>>
notMvVars == <<mpVars, infVars, codecVars,
               fwdVars, stVars, anVars, spVars, cbVars, grVars, cvVars, rbVars, dgVars>>
notFwdVars == <<mpVars, infVars, codecVars,
                mvVars, stVars, anVars, spVars, cbVars, grVars, cvVars, rbVars, dgVars>>
notStVars == <<mpVars, infVars, codecVars,
               mvVars, fwdVars, anVars, spVars, cbVars, grVars, cvVars, rbVars, dgVars>>
notAnVars == <<mpVars, infVars, codecVars,
               mvVars, fwdVars, stVars, spVars, cbVars, grVars, cvVars, rbVars, dgVars>>
notSpVars == <<mpVars, infVars, codecVars,
               mvVars, fwdVars, stVars, anVars, cbVars, grVars, cvVars, rbVars, dgVars>>
notCbVars == <<mpVars, infVars, codecVars,
               mvVars, fwdVars, stVars, anVars, spVars, grVars, cvVars, rbVars, dgVars>>
notGrVars == <<mpVars, infVars, codecVars,
               mvVars, fwdVars, stVars, anVars, spVars, cbVars, cvVars, rbVars, dgVars>>
notCvVars == <<mpVars, infVars, codecVars,
               mvVars, fwdVars, stVars, anVars, spVars, cbVars, grVars, rbVars, dgVars>>
notRbVars == <<mpVars, infVars, codecVars,
               mvVars, fwdVars, stVars, anVars, spVars, cbVars, grVars, cvVars, dgVars>>
notDgVars == <<mpVars, infVars, codecVars,
               mvVars, fwdVars, stVars, anVars, spVars, cbVars, grVars, cvVars, rbVars>>
vars == <<mpVars, infVars, codecVars, laterVars>>

(***************************************************************************)
(* Configurations handed to modify_params (model_configs presets).         *)
(***************************************************************************)
Channels == {"bases", "pw", "ip", "strand", "sn", "ccs", "dnabert"}

\* Per-channel embedding widths of a learned-values preset.
HiddenSizeChoices ==
  { [per_base |-> 8, pw |-> 8, ip |-> 8, strand |-> 2, sn |-> 8, dnabert |-> 6],
    [per_base |-> 3, pw |-> 5, ip |-> 7, strand |-> 1, sn |-> 2, dnabert |-> 4] }

PassesChoices == (1..MaxPassesBound) \cup {MaxPassesBound * 5}

BaseConfig(model, passes, batch) ==
  [k \in {"model_name", "max_passes", "batch_size", "tpu_scale_factor",
          "train_path", "eval_path", "hard_eval_path"} |->
     CASE k = "model_name" -> model
       [] k = "max_passes" -> passes
       [] k = "batch_size" -> batch
       [] k = "tpu_scale_factor" -> MaxTpuScale
       [] k = "train_path" -> CfgTrainPath
       [] k = "eval_path" -> "cfg/eval"
       [] k = "hard_eval_path" -> "cfg/hard_eval"]

LearnValuesKeys(enabled, sizes, condense, input_size) ==
  [use_bases |-> "bases" \in enabled,
   use_pw |-> "pw" \in enabled,
   use_ip |-> "ip" \in enabled,
   use_strand |-> "strand" \in enabled,
   use_sn |-> "sn" \in enabled,
   use_ccs |-> "ccs" \in enabled,
   use_dnabert |-> "dnabert" \in enabled,
   per_base_hidden_size |-> sizes.per_base,
   pw_hidden_size |-> sizes.pw,
   ip_hidden_size |-> sizes.ip,
   strand_hidden_size |-> sizes.strand,
   sn_hidden_size |-> sizes.sn,
   dnabert_desired_hidden_size |-> sizes.dnabert,
   condense_transformer_input |-> condense,
   transformer_input_size |-> input_size]

\* Configurations of the four models with the default channels, used with
\* every hardware and dataset setting.
HardwareConfigs ==
  { Update(BaseConfig(m, mp, b),
           IF m = "transformer_learn_values"
             THEN Update(LearnValuesKeys(Channels \ {"dnabert"},
                                         CHOOSE z \in HiddenSizeChoices : z.strand = 2,
                                         FALSE, 280),
                         [transformer_model_size |-> sz])
           ELSE IF m = "transformer"
             THEN [transformer_model_size |-> sz, num_heads |-> 2]
           ELSE [use_sn |-> TRUE]) :
      m \in ModelNames, mp \in {1, MaxPassesBound}, b \in 1..MaxBatch,
      sz \in {"base"} }

\* The tf_dataset key: absent, empty, or naming a dataset.
WithDataset(cfg) ==
  {cfg, Update(cfg, [tf_dataset |-> ""]), Update(cfg, [tf_dataset |-> "ds"])}

\* Learned-values configurations over every set of enabled channels.
ArchitectureConfigs ==
  { Update(BaseConfig("transformer_learn_values", mp, 1),
           Update(LearnValuesKeys(en, z, c[1], c[2]),
                  [transformer_model_size |-> "big"])) :
      mp \in 1..MaxPassesBound, en \in (SUBSET Channels) \ {{}},
      z \in HiddenSizeChoices,
      c \in {<<FALSE, 280>>, <<TRUE, 280>>, <<TRUE, 35>>} }
  \cup
  { Update(BaseConfig(m, mp, 1),
           IF m = "transformer" THEN [transformer_model_size |-> "big"]
           ELSE [use_sn |-> TRUE]) :
      m \in ModelNames \ {"transformer_learn_values"}, mp \in PassesChoices }

\* tpu_topology strings: 'NxM' over a small range that includes zero and a
\* negative number, and strings that are not of that form.
TopoDims == (0 - 1)..MaxTopoDim
X == <<"x">>
TopologyChoices ==
  {NoneStr}
  \cup {Str(IntToStr(n) \o X \o IntToStr(m)) : n, m \in TopoDims}
  \cup {Str(<<>>), Str(<<"2">>), Str(<<"2", "x", "2", "x", "2">>),
        Str(<<"a", "x", "b">>), Str(<<"2", "x">>), Str(<<" ", "2", "x", "1">>)}

TpuChoices == {NoneStr, Str(<<>>), Str(<<"t", "p", "u">>)}

ShardChoices == [TrainPaths -> 0..1]

InitParams ==
  /\ mp_log = <<>>
  /\ \/ /\ \E cfg \in HardwareConfigs : params \in WithDataset(cfg)
        /\ num_gpus \in 0..MaxGpus
        /\ tpu \in TpuChoices
        /\ tpu_topology \in
             IF tpu.none THEN {NoneStr, Str(<<"2", "x", "2">>)}
             ELSE TopologyChoices
        /\ shards \in ShardChoices
        /\ counts_ok \in BOOLEAN
     \/ /\ params \in ArchitectureConfigs
        /\ num_gpus \in 0..MaxGpus
        /\ tpu = NoneStr
        /\ tpu_topology = NoneStr
        /\ shards = [q \in TrainPaths |-> 1]
        /\ counts_ok = TRUE

(***************************************************************************)
(* modify_params(params, tpu, tpu_topology), called with the run's flags.  *)
(***************************************************************************)
ModifyParams ==
  /\ Len(mp_log) < MaxCalls
  /\ LET r == modify_params(params, num_gpus, tpu, tpu_topology, shards,
                            counts_ok)
     IN /\ params' = r.p
        /\ mp_log' = Append(mp_log, [before |-> params, after |-> r.p,
                                     err |-> r.err, derived |-> r.derived,
                                     premerge |-> r.premerge])
  /\ UNCHANGED <<num_gpus, tpu, tpu_topology, shards, counts_ok>>
  /\ UNCHANGED <<infVars, codecVars, laterVars>>

(***************************************************************************)
(* run_inference_and_write_results(model, out_dir, params).                *)
(***************************************************************************)
\* sep.join(strs).
RECURSIVE Join(_, _)
Join(strs, sep) ==
  IF Len(strs) = 0 THEN <<>>
  ELSE IF Len(strs) = 1 THEN strs[1]
  ELSE strs[1] \o sep \o Join(Tail(strs), sep)

\* ''.join(strs).
RECURSIVE Concat(_)
Concat(strs) == IF Len(strs) = 0 THEN <<>> ELSE strs[1] \o Concat(Tail(strs))

Comma == <<",">>
Newline == <<"\n">>
DatasetWord == <<"d", "a", "t", "a", "s", "e", "t">>

\* model.metrics_names once the model has been evaluated.
MetricNames == << <<"l", "o", "s", "s">>, <<"a", "c", "c">> >>

\* What model.evaluate can return: one value per metric name.
Histories == [1..Len(MetricNames) -> 0..MaxMetric]

\* Lines 213-215.
EvalPaths(p) == IF Len(p.hard_eval_path) > 0
                THEN <<p.eval_path, p.hard_eval_path>>
                ELSE <<p.eval_path>>

\* Lines 236-237: the line of one evaluated dataset.
DatasetLine(path, history) ==
  path \o Comma
    \o Join([i \in 1..Len(history) |-> IntToStr(history[i])], Comma)
    \o Newline

\* Variant of LogsContent that writes the header after the dataset lines.
LogsContent_HeaderLast(lines, names) ==
  Concat(lines \o <<DatasetWord \o Comma \o Join(names, Comma) \o Newline>>)
    \o Newline

\* Lines 241-244: the header from the metric names, then the dataset lines,
\* then one more newline.
LogsContent(lines, names) ==
  Concat(<<DatasetWord \o Comma \o Join(names, Comma) \o Newline>> \o lines)
    \o Newline

InferenceParams ==
  {[eval_path |-> <<"e">>, hard_eval_path |-> h] : h \in {<<>>, <<"h">>}}

InfOff ==
  /\ inf_pc = "off"
  /\ inf_params = [eval_path |-> <<"e">>, hard_eval_path |-> <<>>]
  /\ eval_paths = <<>>
  /\ lines_to_write = <<>>
  /\ metrics_names = <<>>
  /\ logs_file = [open |-> FALSE, content |-> <<>>]
  /\ inf_histories = <<>>
  /\ names_read_at = 0 - 1

InitInference ==
  /\ inf_pc = "called"
  /\ inf_params \in InferenceParams
  /\ eval_paths = <<>>
  /\ lines_to_write = <<>>
  /\ metrics_names = <<>>
  /\ logs_file = [open |-> FALSE, content |-> <<>>]
  /\ inf_histories = <<>>
  /\ names_read_at = 0 - 1

\* Lines 213-222: eval_paths is built and inference.csv opened for writing.
InfOpen ==
  /\ inf_pc = "called"
  /\ eval_paths' = EvalPaths(inf_params)
  /\ logs_file' = [open |-> TRUE, content |-> <<>>]
  /\ lines_to_write' = <<>>
  /\ inf_pc' = "loop"
  /\ UNCHANGED <<inf_params, metrics_names, inf_histories, names_read_at>>
  /\ UNCHANGED <<mpVars, codecVars, laterVars>>

\* Lines 223-237: one iteration of the loop; evaluating the model is what
\* makes its metrics_names available.
InfEvaluate ==
  /\ inf_pc = "loop"
  /\ Len(lines_to_write) < Len(eval_paths)
  /\ \E history \in Histories :
       /\ lines_to_write' =
            Append(lines_to_write,
                   DatasetLine(eval_paths[Len(lines_to_write) + 1], history))
       /\ inf_histories' = Append(inf_histories, history)
  /\ metrics_names' = MetricNames
  /\ UNCHANGED <<inf_pc, inf_params, eval_paths, logs_file, names_read_at>>
  /\ UNCHANGED <<mpVars, codecVars, laterVars>>

\* The dataset cannot be read or evaluated: the exception leaves the with
\* block, which closes the file as it is.
InfEvaluateRaises ==
  /\ inf_pc = "loop"
  /\ Len(lines_to_write) < Len(eval_paths)
  /\ inf_pc' = "raised"
  /\ logs_file' = [logs_file EXCEPT !.open = FALSE]
  /\ UNCHANGED <<inf_params, eval_paths, lines_to_write, metrics_names,
                 inf_histories, names_read_at>>
  /\ UNCHANGED <<mpVars, codecVars, laterVars>>

\* Lines 239-244, after the loop.
InfWrite ==
  /\ inf_pc = "loop"
  /\ Len(lines_to_write) = Len(eval_paths)
  /\ names_read_at' = Len(inf_histories)
  /\ logs_file' = [open |-> FALSE,
                   content |-> LogsContent(lines_to_write, metrics_names)]
  /\ inf_pc' = "done"
  /\ UNCHANGED <<inf_params, eval_paths, lines_to_write, metrics_names,
                 inf_histories>>
  /\ UNCHANGED <<mpVars, codecVars, laterVars>>

MpOff ==
  /\ mp_log = <<>>
  /\ params = BaseConfig("fc", 1, 1)
  /\ num_gpus = 0
  /\ tpu = NoneStr
  /\ tpu_topology = NoneStr
  /\ shards = [q \in TrainPaths |-> 1]
  /\ counts_ok = TRUE

(***************************************************************************)
(* The record codec: deepconsensus_input_to_example, serialization and     *)
(* the parse stage of the inference pipeline.                              *)
(***************************************************************************)
\* The ordered vocabulary; a class index is the position in it, from 0.
VOCAB == <<"A", "C", "G", "T", " ">>
VocabIndex(c) == (CHOOSE i \in 1..Len(VOCAB) : VOCAB[i] = c) - 1

\* Clamps of the auxiliary channels.
PW_MAX == 9
IP_MAX == 9
SN_MAX == 15
STRAND_MAX == 2
Clamp(v, max) == IF v > max THEN max ELSE IF v < 0 THEN 0 ELSE v

\* A tagged, length-prefixed field, the unit of both wire formats.
Field(tag, payload) == <<tag, Len(payload)>> \o payload

\* The fields of a serialized message, in wire order.
RECURSIVE ParseFields(_)
ParseFields(bytes) ==
  IF Len(bytes) < 2 THEN <<>>
  ELSE <<[tag |-> bytes[1], payload |-> SubSeq(bytes, 3, 2 + bytes[2])]>>
         \o ParseFields(SubSeq(bytes, 3 + bytes[2], Len(bytes)))

\* The payload of the first field with the given tag.
FieldOf(fields, tag) ==
  fields[CHOOSE i \in 1..Len(fields) :
           fields[i].tag = tag /\ \A j \in 1..(i - 1) : fields[j].tag # tag].payload

\* DeepConsensusInput.SerializeToString().
SerializeSubread(sr) ==
  Field("bases", sr.bases) \o Field("pw", sr.pw) \o Field("ip", sr.ip)
    \o Field("subread_strand", <<sr.subread_strand>>) \o Field("sn", sr.sn)

SerializeDcInput(r) ==
  Field("label", r.label) \o Field("ccs_sequence", r.ccs_sequence)
    \o Concat([i \in 1..Len(r.subreads) |->
                 Field("subreads", SerializeSubread(r.subreads[i]))])

\* DeepConsensusInput.FromString(bytes).
ParseSubread(bytes) ==
  LET f == ParseFields(bytes)
  IN [bases |-> FieldOf(f, "bases"), pw |-> FieldOf(f, "pw"),
      ip |-> FieldOf(f, "ip"),
      subread_strand |-> FieldOf(f, "subread_strand")[1],
      sn |-> FieldOf(f, "sn")]

ParseDcInput(bytes) ==
  LET f == ParseFields(bytes)
      subs == SelectSeq(f, LAMBDA x : x.tag = "subreads")
  IN [label |-> FieldOf(f, "label"),
      ccs_sequence |-> FieldOf(f, "ccs_sequence"),
      subreads |-> [i \in 1..Len(subs) |-> ParseSubread(subs[i].payload)]]

\* Row i (from 0) of the encoded array: the channel whose index range holds
\* i, for the subread the row belongs to; rows of absent subreads are zero.
EncodedRow(r, i, max_passes, width) ==
  LET idx == get_indices(max_passes)
      n == Len(r.subreads)
      In(range) == range[1] <= i /\ i < range[2]
      Zero == [j \in 1..width |-> 0]
  IN IF In(idx.base) THEN
       (IF i < n
        THEN [j \in 1..width |-> VocabIndex(r.subreads[i + 1].bases[j])]
        ELSE Zero)
     ELSE IF In(idx.pw) THEN
       (IF i - idx.pw[1] < n
        THEN [j \in 1..width |->
                Clamp(r.subreads[i - idx.pw[1] + 1].pw[j], PW_MAX)]
        ELSE Zero)
     ELSE IF In(idx.ip) THEN
       (IF i - idx.ip[1] < n
        THEN [j \in 1..width |->
                Clamp(r.subreads[i - idx.ip[1] + 1].ip[j], IP_MAX)]
        ELSE Zero)
     ELSE IF In(idx.strand) THEN
       (IF i - idx.strand[1] < n
        THEN [j \in 1..width |->
                Clamp(r.subreads[i - idx.strand[1] + 1].subread_strand,
                      STRAND_MAX)]
        ELSE Zero)
     ELSE IF In(idx.ccs) THEN
       [j \in 1..width |-> VocabIndex(r.ccs_sequence[j])]
     ELSE
       [j \in 1..width |->
          Clamp(r.subreads[1].sn[i - idx.sn[1] + 1], SN_MAX)]

EncodedRows(r, example_height, max_passes, width) ==
  [i \in 1..example_height |-> EncodedRow(r, i - 1, max_passes, width)]

\* ndarray.tostring(): the elements in row-major order.
Flatten(rows, height, width) ==
  [k \in 1..(height * width) |->
     rows[((k - 1) \div width) + 1][((k - 1) % width) + 1]]

\* Variant of Reshape that reads the buffer in column-major order.
Reshape_ColumnMajor(flat, height, width) ==
  [i \in 1..height |-> [j \in 1..width |-> flat[(j - 1) * height + i]]]

\* The decoded buffer reshaped to (height, width).
Reshape(flat, height, width) ==
  [i \in 1..height |-> [j \in 1..width |-> flat[(i - 1) * width + j]]]

\* deepconsensus_input_to_example(deepconsensus_input, example_height).
deepconsensus_input_to_example(r, example_height) ==
  LET width == Len(r.subreads[1].bases)
      max_passes == (example_height - (CcsRows + SnRows)) \div 4
      data == EncodedRows(r, example_height, max_passes, width)
  IN [subreads_encoded |-> Flatten(data, example_height, width),
      subreads_shape |-> <<example_height, width, 1>>,
      label_encoded |-> [j \in 1..Len(r.label) |-> VocabIndex(r.label[j])],
      num_passes |-> Len(r.subreads),
      deepconsensus_input_encoded |-> SerializeDcInput(r)]

\* tf.train.Example.SerializeToString().
SerializeExample(ex) ==
  Field("deepconsensus_input/encoded", ex.deepconsensus_input_encoded)
    \o Field("label/encoded", ex.label_encoded)
    \o Field("subreads/encoded", ex.subreads_encoded)
    \o Field("subreads/num_passes", <<ex.num_passes>>)
    \o Field("subreads/shape", ex.subreads_shape)

\* ParseTfExamplesDoFn.process: (rows, label, num_passes, dc_input), with
\* rows shaped by the run's hidden_size and max_length.
ParseTfExample(bytes, p) ==
  LET f == ParseFields(bytes)
  IN [rows |-> Reshape(FieldOf(f, "subreads/encoded"),
                       p.hidden_size, p.max_length),
      label |-> FieldOf(f, "label/encoded"),
      num_passes |-> FieldOf(f, "subreads/num_passes")[1],
      dc_input |-> ParseDcInput(FieldOf(f, "deepconsensus_input/encoded"))]

\* ConsensusInputRecords: every subread and the label have the window width.
AuxChoices ==
  { [pw |-> 1, ip |-> 2, strand |-> 1, sn |-> <<3, 4, 5, 6>>],
    [pw |-> PW_MAX + 1, ip |-> 0, strand |-> 2, sn |-> <<0, SN_MAX + 1, 7, 1>>],
    [pw |-> 0, ip |-> IP_MAX + 3, strand |-> 0, sn |-> <<9, 9, 9, 9>>] }

SubreadBases(width) == [1..width -> {"A", "G", " "}]
LabelBases(width) == [1..width -> {"C", "T"}]

MakeSubread(bases, aux, k) ==
  [bases |-> bases,
   pw |-> [j \in 1..Len(bases) |-> aux.pw + (j - 1)],
   ip |-> [j \in 1..Len(bases) |-> aux.ip + (k - 1)],
   subread_strand |-> aux.strand,
   sn |-> aux.sn]

CodecRecords(width, n) ==
  { [subreads |-> [k \in 1..n |-> MakeSubread(bs[k], aux, k)],
     label |-> lab,
     ccs_sequence |-> bs[1]] :
      bs \in [1..n -> SubreadBases(width)], lab \in LabelBases(width),
      aux \in AuxChoices }

NoExample == [subreads_encoded |-> <<>>, subreads_shape |-> <<>>,
              label_encoded |-> <<>>, num_passes |-> 0,
              deepconsensus_input_encoded |-> <<>>]
NoOutput == [rows |-> <<>>, label |-> <<>>, num_passes |-> 0,
             dc_input |-> [label |-> <<>>, ccs_sequence |-> <<>>,
                           subreads |-> <<>>]]

CodecOff ==
  /\ codec_pc = "off"
  /\ dc_input = NoOutput.dc_input
  /\ codec_params = [max_passes |-> 1, hidden_size |-> 0, max_length |-> 0]
  /\ tf_example = NoExample
  /\ serialized_example = <<>>
  /\ parsed_output = NoOutput

\* The run's params as the parse stage sees them: hidden_size from
\* modify_params for a row-stacked model, max_length the window width.
InitCodec ==
  /\ codec_pc = "record"
  /\ \E width \in 1..MaxWidth, n \in 1..MaxSubreads :
       /\ dc_input \in CodecRecords(width, n)
       /\ \E mp \in n..MaxSubreads :
            codec_params = [max_passes |-> mp,
                            hidden_size |-> get_total_rows(mp),
                            max_length |-> width]
  /\ tf_example = NoExample
  /\ serialized_example = <<>>
  /\ parsed_output = NoOutput

CodecEncode ==
  /\ codec_pc = "record"
  /\ tf_example' = deepconsensus_input_to_example(
                     dc_input, get_total_rows(codec_params.max_passes))
  /\ codec_pc' = "example"
  /\ UNCHANGED <<dc_input, codec_params, serialized_example, parsed_output>>
  /\ UNCHANGED <<mpVars, infVars, laterVars>>

CodecSerialize ==
  /\ codec_pc = "example"
  /\ serialized_example' = SerializeExample(tf_example)
  /\ codec_pc' = "serialized"
  /\ UNCHANGED <<dc_input, codec_params, tf_example, parsed_output>>
  /\ UNCHANGED <<mpVars, infVars, laterVars>>

CodecParse ==
  /\ codec_pc = "serialized"
  /\ parsed_output' = ParseTfExample(serialized_example, codec_params)
  /\ codec_pc' = "parsed"
  /\ UNCHANGED <<dc_input, codec_params, tf_example, serialized_example>>
  /\ UNCHANGED <<mpVars, infVars, laterVars>>

(***************************************************************************)
(* run_majority_vote_model.py: the command line of the majority-vote       *)
(* baseline (main) and the pipeline it runs (create_pipeline).             *)
(***************************************************************************)
\* Optional[str] flags holding a path, and the optional integer flag.
NonePath == [none |-> TRUE, path |-> ""]
Path(s) == [none |-> FALSE, path |-> s]
NoWidth == [none |-> TRUE, val |-> 0]
Width(w) == [none |-> FALSE, val |-> w]
TestExampleWidth == 100

ProtoClasses == {"DeepConsensusInput", "Example"}
ShardedInput == "in/train@*.tfrecords.gz"

\* The command lines: each flag absent (its default) or given.
MvFlagChoices ==
  [input_tfrecords_path : {NonePath, Path(""), Path(ShardedInput)},
   example_width : {NoWidth, Width(TestExampleWidth)},
   write_errors : BOOLEAN,
   output_path : {NonePath, Path("out")},
   proto_class : ProtoClasses]

MvRecords == 1..MaxMvRecords

\* input_tfrecords_path.replace('@*.tfrecords.gz', '').
StripShardPattern(path) == IF path = ShardedInput THEN "in/train" ELSE path

\* os.path.join(a, b), kept as the pair of its parts.
PathJoin(a, b) == <<a, b>>

\* Variant of pipeline that splits windows after the vote and the count.
pipeline_WindowAfterVote(input_tfrecords_path, example_width, write_errors, output_path, proto_class, matches) ==
  LET height == IF proto_class = "Example"
                  THEN extract_example_height(
                         StripShardPattern(input_tfrecords_path.path),
                         [q \in {StripShardPattern(input_tfrecords_path.path)}
                            |-> matches])
                ELSE [err |-> "", val |-> 0]
      read == IF proto_class = "DeepConsensusInput"
                THEN <<"read_deepconsensus_input">>
              ELSE <<"read_tf_example", "get_deepconsensus_input">>
      window == IF ~example_width.none THEN <<"chunk_windows">> ELSE <<>>
      vote == <<"get_consensus_from_majority_vote",
                "count_matches_sequence_only">>
      write == IF write_errors
                 THEN IF proto_class = "Example"
                        THEN <<"get_hard_ex", "convert_to_tf_ex_train",
                               "write_hard_ex">>
                      ELSE <<"get_hard_ex", "write_hard_ex">>
               ELSE <<>>
      prefix == PathJoin(output_path.path,
                         IF proto_class = "Example"
                           THEN "deepconsensus/tf_examples"
                         ELSE "deepconsensus/deepconsensus")
  IN IF proto_class \notin ProtoClasses
       THEN [err |-> "ValueError", stages |-> <<>>, prefix |-> <<>>,
             example_height |-> 0]
     ELSE IF height.err # ""
       THEN [err |-> height.err, stages |-> <<>>, prefix |-> <<>>,
             example_height |-> 0]
     ELSE IF matches = 0
       THEN [err |-> "IOError", stages |-> <<>>, prefix |-> <<>>,
             example_height |-> 0]
     ELSE IF write_errors /\ output_path.none
       THEN [err |-> "TypeError", stages |-> <<>>, prefix |-> <<>>,
             example_height |-> 0]
     ELSE [err |-> "",
           stages |-> read \o <<"reshuffle">> \o vote \o window \o write,
           prefix |-> IF write_errors THEN prefix ELSE <<>>,
           example_height |-> height.val]

\* Variant of pipeline that writes hard examples whenever an output path is
\* configured.
pipeline_WriteWhenOutputPath(input_tfrecords_path, example_width, write_errors, output_path, proto_class, matches) ==
  LET height == IF proto_class = "Example"
                  THEN extract_example_height(
                         StripShardPattern(input_tfrecords_path.path),
                         [q \in {StripShardPattern(input_tfrecords_path.path)}
                            |-> matches])
                ELSE [err |-> "", val |-> 0]
      read == IF proto_class = "DeepConsensusInput"
                THEN <<"read_deepconsensus_input">>
              ELSE <<"read_tf_example", "get_deepconsensus_input">>
      window == IF ~example_width.none THEN <<"chunk_windows">> ELSE <<>>
      vote == <<"get_consensus_from_majority_vote",
                "count_matches_sequence_only">>
      write == IF ~output_path.none
                 THEN IF proto_class = "Example"
                        THEN <<"get_hard_ex", "convert_to_tf_ex_train",
                               "write_hard_ex">>
                      ELSE <<"get_hard_ex", "write_hard_ex">>
               ELSE <<>>
      prefix == PathJoin(output_path.path,
                         IF proto_class = "Example"
                           THEN "deepconsensus/tf_examples"
                         ELSE "deepconsensus/deepconsensus")
  IN IF proto_class \notin ProtoClasses
       THEN [err |-> "ValueError", stages |-> <<>>, prefix |-> <<>>,
             example_height |-> 0]
     ELSE IF height.err # ""
       THEN [err |-> height.err, stages |-> <<>>, prefix |-> <<>>,
             example_height |-> 0]
     ELSE IF matches = 0
       THEN [err |-> "IOError", stages |-> <<>>, prefix |-> <<>>,
             example_height |-> 0]
     ELSE [err |-> "",
           stages |-> read \o <<"reshuffle">> \o window \o vote \o write,
           prefix |-> IF write # <<>> THEN prefix ELSE <<>>,
           example_height |-> height.val]

\* Lines 103-166, pipeline(root): the transforms applied to the input, in
\* order, and the prefix the sink writes under; or the error raised while
\* the graph is built (unknown proto_class, no file to take the example
\* height from, no file to read, no directory to join the prefix to).
pipeline(input_tfrecords_path, example_width, write_errors, output_path, proto_class, matches) ==
  LET height == IF proto_class = "Example"
                  THEN extract_example_height(
                         StripShardPattern(input_tfrecords_path.path),
                         [q \in {StripShardPattern(input_tfrecords_path.path)}
                            |-> matches])
                ELSE [err |-> "", val |-> 0]
      read == IF proto_class = "DeepConsensusInput"
                THEN <<"read_deepconsensus_input">>
              ELSE <<"read_tf_example", "get_deepconsensus_input">>
      window == IF ~example_width.none THEN <<"chunk_windows">> ELSE <<>>
      vote == <<"get_consensus_from_majority_vote",
                "count_matches_sequence_only">>
      write == IF write_errors
                 THEN IF proto_class = "Example"
                        THEN <<"get_hard_ex", "convert_to_tf_ex_train",
                               "write_hard_ex">>
                      ELSE <<"get_hard_ex", "write_hard_ex">>
               ELSE <<>>
      prefix == PathJoin(output_path.path,
                         IF proto_class = "Example"
                           THEN "deepconsensus/tf_examples"
                         ELSE "deepconsensus/deepconsensus")
  IN IF proto_class \notin ProtoClasses
       THEN [err |-> "ValueError", stages |-> <<>>, prefix |-> <<>>,
             example_height |-> 0]
     ELSE IF height.err # ""
       THEN [err |-> height.err, stages |-> <<>>, prefix |-> <<>>,
             example_height |-> 0]
     ELSE IF matches = 0
       THEN [err |-> "IOError", stages |-> <<>>, prefix |-> <<>>,
             example_height |-> 0]
     ELSE IF write_errors /\ output_path.none
       THEN [err |-> "TypeError", stages |-> <<>>, prefix |-> <<>>,
             example_height |-> 0]
     ELSE [err |-> "",
           stages |-> read \o <<"reshuffle">> \o window \o vote \o write,
           prefix |-> IF write_errors THEN prefix ELSE <<>>,
           example_height |-> height.val]

\* Variant of main_checks that does not require an output path.
main_checks_NoOutputCheck(flags) ==
  IF flags.input_tfrecords_path.none THEN "UsageError" ELSE ""

\* Lines 176-180 of main: the two usage checks, in order.
main_checks(flags) ==
  IF flags.input_tfrecords_path.none THEN "UsageError"
  ELSE IF flags.write_errors /\ flags.output_path.none THEN "UsageError"
  ELSE ""

MvOff ==
  /\ mv_pc = "off"
  /\ mv_flags = [input_tfrecords_path |-> NonePath, example_width |-> NoWidth,
                 write_errors |-> FALSE, output_path |-> NonePath,
                 proto_class |-> "DeepConsensusInput"]
  /\ mv_matches = 0
  /\ mv_hard = [r \in MvRecords |-> FALSE]
  /\ mv_stages = <<>>
  /\ mv_at = [r \in MvRecords |-> 0]
  /\ mv_log = [r \in MvRecords |-> <<>>]
  /\ mv_counted = {}
  /\ mv_sink = {}
  /\ mv_files = {}

\* The process as app.run(main) enters main: flags parsed, nothing built,
\* read or written.
InitMajorityVote ==
  /\ mv_pc = "main"
  /\ mv_flags \in MvFlagChoices
  /\ mv_matches \in 0..1
  /\ mv_flags.input_tfrecords_path.path = "" => mv_matches = 0
  /\ mv_hard \in [MvRecords -> BOOLEAN]
  /\ mv_stages = <<>>
  /\ mv_at = [r \in MvRecords |-> 0]
  /\ mv_log = [r \in MvRecords |-> <<>>]
  /\ mv_counted = {}
  /\ mv_sink = {}
  /\ mv_files = {}

\* main up to the call of runner.run: the usage checks, then
\* create_pipeline, which only returns the closure over its arguments.
MvMain ==
  /\ mv_pc = "main"
  /\ mv_pc' = IF main_checks(mv_flags) # "" THEN "usage_error" ELSE "created"
  /\ UNCHANGED <<mv_flags, mv_matches, mv_hard, mv_stages, mv_at, mv_log,
                 mv_counted, mv_sink, mv_files>>
  /\ UNCHANGED notMvVars

\* runner.run calls pipeline(root), which builds the graph.
MvConstruct ==
  /\ mv_pc = "created"
  /\ LET g == pipeline(mv_flags.input_tfrecords_path, mv_flags.example_width,
                       mv_flags.write_errors, mv_flags.output_path,
                       mv_flags.proto_class, mv_matches)
     IN /\ mv_pc' = IF g.err # "" THEN "failed" ELSE "running"
        /\ mv_stages' = g.stages
  /\ UNCHANGED <<mv_flags, mv_matches, mv_hard, mv_at, mv_log, mv_counted,
                 mv_sink, mv_files>>
  /\ UNCHANGED notMvVars

\* One record passes its next transform.  Reshuffle groups by key, so it
\* hands records on only once every record has reached it; get_hard_ex
\* emits only the records whose vote disagrees with the label.
MvStep(r) ==
  /\ mv_pc = "running"
  /\ mv_at[r] < Len(mv_stages)
  /\ LET s == mv_stages[mv_at[r] + 1]
     IN /\ s = "reshuffle" =>
             \A q \in MvRecords : mv_at[q] >= mv_at[r]
        /\ mv_log' = [mv_log EXCEPT ![r] = Append(@, s)]
        /\ mv_at' = [mv_at EXCEPT ![r] =
                       IF s = "get_hard_ex" /\ ~mv_hard[r]
                         THEN Len(mv_stages) + 1
                       ELSE @ + 1]
        /\ mv_counted' = IF s = "count_matches_sequence_only"
                           THEN mv_counted \cup {r} ELSE mv_counted
        /\ mv_sink' = IF s = "write_hard_ex" THEN mv_sink \cup {r}
                      ELSE mv_sink
  /\ UNCHANGED <<mv_pc, mv_flags, mv_matches, mv_hard, mv_stages, mv_files>>
  /\ UNCHANGED notMvVars

\* The run ends: a write_hard_ex sink finalizes its shards under its prefix.
MvFinish ==
  /\ mv_pc = "running"
  /\ \A r \in MvRecords : mv_at[r] >= Len(mv_stages)
  /\ mv_pc' = "done"
  /\ LET g == pipeline(mv_flags.input_tfrecords_path, mv_flags.example_width,
                       mv_flags.write_errors, mv_flags.output_path,
                       mv_flags.proto_class, mv_matches)
     IN mv_files' = IF g.prefix # <<>>
                      THEN {[prefix |-> g.prefix, records |-> mv_sink]}
                    ELSE {}
  /\ UNCHANGED <<mv_flags, mv_matches, mv_hard, mv_stages, mv_at, mv_log,
                 mv_counted, mv_sink>>
  /\ UNCHANGED notMvVars

(***************************************************************************)
(* networks.py: the forward pass of each architecture, as the shapes it    *)
(* computes.  A tensor is its shape; an operation the framework rejects    *)
(* (a split that does not cover the axis, a squeeze of an axis that is not *)
(* 1, a concat of unequal batches, an index past the axis, an attribute    *)
(* the constructor never set) is an error.                                 *)
(***************************************************************************)
Raises(e) == [err |-> e, shape |-> <<>>, encoder_width |-> 0, used |-> {}]
Returns(shape, w, used) ==
  [err |-> "", shape |-> shape, encoder_width |-> w, used |-> used]

\* tf.split(inputs, [3, 1, 1], 3) in ConvNet.call.
ConvSplitSizes == <<3, 1, 1>>
RECURSIVE SumSeq(_)
SumSeq(s) == IF s = <<>> THEN 0 ELSE s[1] + SumSeq(Tail(s))

\* Smallest image side the ResNet sub-model takes.
ResNetMinSide == 32

\* Rows kept by tf.image.crop_to_bounding_box(sn_rows, 0, 0, 4, max_length).
SnCropRows == 4

\* FullyConnectedNet: a Keras model over a fixed input shape.
FullyConnectedNet(p, shape) ==
  IF <<shape[2], shape[3], shape[4]>> #
       <<p["hidden_size"], p["max_length"], p["num_channels"]>>
    THEN Raises("ValueError")
  ELSE Returns(<<shape[1], p["max_length"], p["num_classes"]>>, 0, {})

\* ConvNet.call: split the channel axis, run the ResNet on the 3-channel
\* plane, optionally append the cropped sn plane, then dense and reshape.
ConvNet_call(p, shape) ==
  IF SumSeq(ConvSplitSizes) # shape[4] THEN Raises("InvalidArgumentError")
  ELSE IF <<shape[2], shape[3]>> # <<p["hidden_size"], p["max_length"]>>
            \/ shape[2] < ResNetMinSide \/ shape[3] < ResNetMinSide
    THEN Raises("ValueError")
  ELSE IF p["use_sn"] /\ shape[2] < SnCropRows
    THEN Raises("InvalidArgumentError")
  ELSE Returns(<<shape[1], p["max_length"], p["num_classes"]>>, 0, {})

\* Attributes EncoderOnlyTransformer.__init__ sets.
TransformerLayers(p) ==
  {"encoder_stack", "fc1", "softmax"}
  \cup (IF p["add_pos_encoding"] /\ p["use_relative_pos_enc"]
          THEN {"position_embedding"} ELSE {})

\* EncoderOnlyTransformer.encode on an input of shape (batch, length,
\* width).  Lines 190-194 append a zero column of shape (params.batch_size,
\* params.max_length, 1) when the width is odd and positions are encoded;
\* lines 207-215 add a (length, hidden_size) position encoding; the
\* encoder stack keeps the shape and fc1 maps the width to vocab_size.
EncoderOnlyTransformer_encode(p, shape, used) ==
  LET B == shape[1]
      L == shape[2]
      W == shape[3]
      pad == p["add_pos_encoding"] /\ W % 2 # 0
      W1 == IF pad THEN W + 1 ELSE W
      layers == used \cup {"encoder_stack", "fc1", "softmax"}
                  \cup (IF p["add_pos_encoding"] /\ p["use_relative_pos_enc"]
                          THEN {"position_embedding"} ELSE {})
  IN IF pad /\ <<B, L>> # <<p["batch_size"], p["max_length"]>>
       THEN Raises("InvalidArgumentError")
     ELSE IF pad /\ p["hidden_size"] # W1 THEN Raises("AssertionError")
     ELSE IF p["add_pos_encoding"] /\ p["use_relative_pos_enc"]
             /\ W1 # p["hidden_size"]
       THEN Raises("InvalidArgumentError")
     ELSE IF p["add_pos_encoding"] /\ ~p["use_relative_pos_enc"]
             /\ <<L, W1>> # <<p["max_length"], p["hidden_size"]>>
       THEN Raises("InvalidArgumentError")
     ELSE Returns(<<B, L, p["vocab_size"]>>, W1, layers)

\* EncoderOnlyTransformer.call: squeeze the channel axis, transpose to
\* (batch, length, width), encode.
EncoderOnlyTransformer_call(p, shape) ==
  IF shape[4] # 1 THEN Raises("InvalidArgumentError")
  ELSE EncoderOnlyTransformer_encode(p, <<shape[1], shape[3], shape[2]>>, {})

\* Attributes EncoderOnlyLearnedValuesTransformer.__init__ sets.  The input
\* condenser is created inside the use_dnabert branch.
LearnedValuesLayers(p) ==
  TransformerLayers(p)
  \cup (IF p["use_bases"] THEN {"bases_embedding_layer"} ELSE {})
  \cup (IF p["use_pw"] THEN {"pw_embedding_layer"} ELSE {})
  \cup (IF p["use_ip"] THEN {"ip_embedding_layer"} ELSE {})
  \cup (IF p["use_dnabert"] THEN {"dnabert_encoder", "dnabert_condenser"}
        ELSE {})
  \cup (IF p["use_dnabert"] /\ p["condense_transformer_input"]
          THEN {"transformer_input_condenser"} ELSE {})
  \cup (IF p["use_sn"] THEN {"sn_embedding_layer"} ELSE {})
  \cup (IF p["use_strand"] THEN {"strand_embedding_layer"} ELSE {})

\* Variant of EmbeddedParts that embeds one ccs row per pass.
EmbeddedParts_CcsPerPass(p) ==
  LET idx == get_indices(p["max_passes"])
  IN <<[on |-> p["use_bases"], layers |-> {"bases_embedding_layer"},
        rows |-> idx.base, size |-> p["per_base_hidden_size"]],
       [on |-> p["use_dnabert"],
        layers |-> {"dnabert_encoder", "dnabert_condenser"},
        rows |-> idx.base, size |-> p["dnabert_desired_hidden_size"]],
       [on |-> p["use_pw"], layers |-> {"pw_embedding_layer"},
        rows |-> idx.pw, size |-> p["pw_hidden_size"]],
       [on |-> p["use_ip"], layers |-> {"ip_embedding_layer"},
        rows |-> idx.ip, size |-> p["ip_hidden_size"]],
       [on |-> p["use_strand"], layers |-> {"strand_embedding_layer"},
        rows |-> idx.strand, size |-> p["strand_hidden_size"]],
       [on |-> p["use_ccs"], layers |-> {"bases_embedding_layer"},
        rows |-> idx.base, size |-> p["per_base_hidden_size"]],
       [on |-> p["use_sn"], layers |-> {"sn_embedding_layer"},
        rows |-> idx.sn, size |-> p["sn_hidden_size"]]>>

\* The embeddings encode concatenates, in its order: the flag, the layers
\* applied, the row range indexed and the width of one embedding.
EmbeddedParts(p) ==
  LET idx == get_indices(p["max_passes"])
  IN <<[on |-> p["use_bases"], layers |-> {"bases_embedding_layer"},
        rows |-> idx.base, size |-> p["per_base_hidden_size"]],
       [on |-> p["use_dnabert"],
        layers |-> {"dnabert_encoder", "dnabert_condenser"},
        rows |-> idx.base, size |-> p["dnabert_desired_hidden_size"]],
       [on |-> p["use_pw"], layers |-> {"pw_embedding_layer"},
        rows |-> idx.pw, size |-> p["pw_hidden_size"]],
       [on |-> p["use_ip"], layers |-> {"ip_embedding_layer"},
        rows |-> idx.ip, size |-> p["ip_hidden_size"]],
       [on |-> p["use_strand"], layers |-> {"strand_embedding_layer"},
        rows |-> idx.strand, size |-> p["strand_hidden_size"]],
       [on |-> p["use_ccs"], layers |-> {"bases_embedding_layer"},
        rows |-> idx.ccs, size |-> p["per_base_hidden_size"]],
       [on |-> p["use_sn"], layers |-> {"sn_embedding_layer"},
        rows |-> idx.sn, size |-> p["sn_hidden_size"]]>>

RECURSIVE EmbeddedWidth(_)
EmbeddedWidth(parts) ==
  IF parts = <<>> THEN 0
  ELSE (IF parts[1].on
          THEN (parts[1].rows[2] - parts[1].rows[1]) * parts[1].size
        ELSE 0) + EmbeddedWidth(Tail(parts))

\* EncoderOnlyLearnedValuesTransformer.encode on an input of shape (batch,
\* length, rows): embed the rows of each enabled channel, concatenate,
\* optionally condense, then the parent's encode.
EncoderOnlyLearnedValuesTransformer_encode(p, shape) ==
  LET parts == EmbeddedParts(p)
      on == {i \in 1..Len(parts) : parts[i].on}
      created == LearnedValuesLayers(p)
      used == UNION {parts[i].layers : i \in on}
      width == EmbeddedWidth(parts)
  IN IF \E i \in on : ~(parts[i].layers \subseteq created)
       THEN Raises("AttributeError")
     ELSE IF \E i \in on : parts[i].rows[2] > shape[3]
       THEN Raises("InvalidArgumentError")
     ELSE IF on = {} THEN Raises("ValueError")
     ELSE IF p["condense_transformer_input"]
       THEN IF "transformer_input_condenser" \notin created
              THEN Raises("AttributeError")
            ELSE EncoderOnlyTransformer_encode(
                   p, <<shape[1], shape[2], p["transformer_input_size"]>>,
                   used \cup {"transformer_input_condenser"})
     ELSE EncoderOnlyTransformer_encode(p, <<shape[1], shape[2], width>>,
                                        used)

\* call is inherited: squeeze, transpose, then the subclass's encode.
EncoderOnlyLearnedValuesTransformer_call(p, shape) ==
  IF shape[4] # 1 THEN Raises("InvalidArgumentError")
  ELSE EncoderOnlyLearnedValuesTransformer_encode(
         p, <<shape[1], shape[3], shape[2]>>)

\* get_model(params) followed by model(inputs, training=False).
ForwardPass(p, shape) ==
  CASE p["model_name"] = "fc" -> FullyConnectedNet(p, shape)
    [] p["model_name"] = "conv_net" -> ConvNet_call(p, shape)
    [] p["model_name"] = "transformer" -> EncoderOnlyTransformer_call(p, shape)
    [] p["model_name"] = "transformer_learn_values" ->
         EncoderOnlyLearnedValuesTransformer_call(p, shape)
    [] OTHER -> Raises("ValueError")

\* RunForwardPassDoFn: the per-position argmax of the class distribution,
\* decoded through the vocabulary, and one quality character per position.
\* The distribution is whatever the weights give: it is drawn by "draw".
QualityChars == <<"!", "+", "5", "?", "I">>
DecodePrediction(shape, draw) ==
  [deepconsensus_prediction |->
     [i \in 1..shape[2] |-> VOCAB[((i * draw + draw) % shape[3]) + 1]],
   quality_string |->
     [i \in 1..shape[2] |-> QualityChars[((i + draw) % Len(QualityChars)) + 1]]]

\* Keys of a preset that the forward pass reads.
ForwardKeys(channels, pos) ==
  [num_channels |-> channels, num_classes |-> Len(VOCAB),
   vocab_size |-> Len(VOCAB), add_pos_encoding |-> pos[1],
   use_relative_pos_enc |-> pos[2]]

PosEncodingChoices == {<<FALSE, FALSE>>, <<TRUE, FALSE>>, <<TRUE, TRUE>>}

\* Presets of the four architectures, before modify_params.
ForwardPresets ==
  { Update(BaseConfig("transformer_learn_values", mp, b),
           Update(LearnValuesKeys(en, z, c[1], c[2]),
                  Update(ForwardKeys(1, pos),
                         [transformer_model_size |-> "base"]))) :
      mp \in 1..MaxFwdPasses, b \in 1..MaxBatch,
      en \in (SUBSET Channels) \ {{}}, z \in HiddenSizeChoices,
      c \in {<<FALSE, 280>>, <<TRUE, 280>>, <<TRUE, 35>>},
      pos \in PosEncodingChoices }
  \cup
  { Update(BaseConfig("transformer", mp, b),
           Update(ForwardKeys(1, pos), [transformer_model_size |-> "base"])) :
      mp \in 1..MaxFwdPasses, b \in 1..MaxBatch, pos \in PosEncodingChoices }
  \cup
  { Update(BaseConfig("fc", mp, b),
           Update(ForwardKeys(1, <<FALSE, FALSE>>), [use_sn |-> TRUE])) :
      mp \in 1..MaxFwdPasses, b \in 1..MaxBatch }
  \cup
  { Update(BaseConfig("conv_net", mp, b),
           Update(ForwardKeys(ch, <<FALSE, FALSE>>), [use_sn |-> sn])) :
      mp \in 1..MaxFwdPasses, b \in 1..MaxBatch, ch \in {4, 5},
      sn \in BOOLEAN }

NoForwardOutput == Raises("")
NoPrediction == [deepconsensus_prediction |-> <<>>, quality_string |-> <<>>]

FwdOff ==
  /\ fwd_pc = "off"
  /\ fwd_params = <<>>
  /\ fwd_input = <<>>
  /\ fwd_out = NoForwardOutput
  /\ fwd_record = NoPrediction

\* A preset taken through modify_params on one machine without accelerators,
\* and a batch to run: of any batch size, with hidden_size rows or with the
\* rows of the record layout.
InitForward ==
  /\ fwd_pc = "start"
  /\ \E cfg \in ForwardPresets :
       fwd_params = modify_params(cfg, 0, NoneStr, NoneStr,
                                  [q \in TrainPaths |-> 1], TRUE).p
  /\ \E batch \in 1..MaxBatch :
       \E rows \in {fwd_params["hidden_size"],
                    get_total_rows(fwd_params["max_passes"])} :
         fwd_input = <<batch, rows, fwd_params["max_length"],
                       fwd_params["num_channels"]>>
  /\ fwd_out = NoForwardOutput
  /\ fwd_record = NoPrediction

\* model(rows, training=False).
FwdCall ==
  /\ fwd_pc = "start"
  /\ fwd_out' = ForwardPass(fwd_params, fwd_input)
  /\ fwd_pc' = IF fwd_out'.err # "" THEN "failed" ELSE "called"
  /\ UNCHANGED <<fwd_params, fwd_input, fwd_record>>
  /\ UNCHANGED notFwdVars

\* The prediction and the quality string are attached to the record.
FwdDecode ==
  /\ fwd_pc = "called"
  /\ \E draw \in 0..MaxDraw :
       fwd_record' = DecodePrediction(fwd_out.shape, draw)
  /\ fwd_pc' = "decoded"
  /\ UNCHANGED <<fwd_params, fwd_input, fwd_out>>
  /\ UNCHANGED notFwdVars

(***************************************************************************)
(* model_inference_transforms: the Stats combiner and the StatsToCsv sink. *)
(* A float is kept as a fixed-point number of FixedDigits decimals.        *)
(***************************************************************************)
FixedDigits == 2
FixedScale == 10 ^ FixedDigits

\* The non-negative integer square root.
ISqrt(v, most) == CHOOSE r \in 0..most : r * r <= v /\ (r + 1) * (r + 1) > v

\* The metric values of the inputs, and the largest of them.
StatValues == {2 * v + 1 : v \in 0..MaxStatValue}
TopStatValue == 2 * MaxStatValue + 1

\* CombineFn.create_accumulator: nothing seen; min and max start at the
\* infinities (one past the largest value, one before the smallest).
create_accumulator ==
  [count |-> 0, sum |-> 0, sum_sq |-> 0, min |-> TopStatValue + 1,
   max |-> 0 - 1]

\* CombineFn.add_input.
add_input(acc, x) ==
  [count |-> acc.count + 1, sum |-> acc.sum + x, sum_sq |-> acc.sum_sq + x * x,
   min |-> IF x < acc.min THEN x ELSE acc.min,
   max |-> PyMax(acc.max, x)]

\* Variant of merge_accumulators that keeps the minimum of the first
\* accumulator.
merge_accumulators_KeepFirstMin(a, b) ==
  [count |-> a.count + b.count, sum |-> a.sum + b.sum,
   sum_sq |-> a.sum_sq + b.sum_sq,
   min |-> a.min,
   max |-> PyMax(a.max, b.max)]

\* CombineFn.merge_accumulators, for two accumulators.
merge_accumulators(a, b) ==
  [count |-> a.count + b.count, sum |-> a.sum + b.sum,
   sum_sq |-> a.sum_sq + b.sum_sq,
   min |-> IF b.min < a.min THEN b.min ELSE a.min,
   max |-> PyMax(a.max, b.max)]

\* CombineFn.extract_output: count, mean, population standard deviation,
\* min and max, tagged with the metric and group names.
extract_output(acc, group_name, metric_name) ==
  [count |-> acc.count,
   mean |-> (acc.sum * FixedScale) \div acc.count,
   stddev |-> ISqrt(((acc.count * acc.sum_sq - acc.sum * acc.sum)
                       * FixedScale * FixedScale)
                      \div (acc.count * acc.count),
                    TopStatValue * FixedScale),
   min |-> acc.min * FixedScale,
   max |-> acc.max * FixedScale,
   metric |-> metric_name,
   group |-> group_name]

\* str(x) and float(s) of a fixed-point number.
FormatFixed(v) ==
  LET frac == NatToStr(v % FixedScale)
  IN NatToStr(v \div FixedScale) \o <<".">>
       \o [i \in 1..(FixedDigits - Len(frac)) |-> "0"] \o frac
ParseFixed(s) ==
  LET parts == Split(s, ".")
      frac == IF Len(parts) > 1 THEN parts[2] ELSE <<>>
      padded == [i \in 1..FixedDigits |->
                   IF i <= Len(frac) THEN frac[i] ELSE "0"]
  IN DigitsVal(parts[1], 0) * FixedScale + DigitsVal(padded, 0)

StatsCsvHeader ==
  << <<"g", "r", "o", "u", "p", "_", "v", "a", "l">>, <<"m", "e", "a", "n">>,
     <<"s", "t", "d", "d", "e", "v">>, <<"m", "i", "n">>, <<"m", "a", "x">>,
     <<"c", "o", "u", "n", "t">>, <<"m", "e", "t", "r", "i", "c">>,
     <<"g", "r", "o", "u", "p">> >>

\* StatsToCsv: the header, then one line per group in the order given.
StatsToCsv(out, order) ==
  Concat([i \in 1..(Len(order) + 1) |->
    IF i = 1 THEN Join(StatsCsvHeader, Comma) \o Newline
    ELSE LET g == order[i - 1]
         IN Join(<<NatToStr(g), FormatFixed(out[g].mean),
                   FormatFixed(out[g].stddev), FormatFixed(out[g].min),
                   FormatFixed(out[g].max), NatToStr(out[g].count),
                   out[g].metric, out[g].group>>, Comma) \o Newline])

\* pd.read_csv(...).to_dict('records'), keyed by group_val as in the test.
ReadStatsCsv(content) ==
  LET lines == Split(content, "\n")
      header == Split(lines[1], ",")
      Col(fields, name) == fields[CHOOSE i \in 1..Len(header) : header[i] = name]
      Row(fields) ==
        [group_val |-> PyInt(Col(fields, StatsCsvHeader[1])).val,
         data |-> [count |-> PyInt(Col(fields, StatsCsvHeader[6])).val,
                   mean |-> ParseFixed(Col(fields, StatsCsvHeader[2])),
                   stddev |-> ParseFixed(Col(fields, StatsCsvHeader[3])),
                   min |-> ParseFixed(Col(fields, StatsCsvHeader[4])),
                   max |-> ParseFixed(Col(fields, StatsCsvHeader[5])),
                   metric |-> Col(fields, StatsCsvHeader[7]),
                   group |-> Col(fields, StatsCsvHeader[8])]]
  IN {Row(Split(lines[i], ",")) : i \in 2..(Len(lines) - 1)}

\* The test's input_data: records with a group and a metric value.
StatsData ==
  UNION {[1..n -> [group : 1..MaxStatGroups, metric : StatValues]] :
           n \in 0..MaxStatData}
DataGroups == {st_data[i].group : i \in 1..Len(st_data)}

StatsOff ==
  /\ st_pc = "off"
  /\ st_data = <<>>
  /\ st_pending = {}
  /\ st_accs = <<>>
  /\ st_merges = 0
  /\ st_out = <<>>
  /\ st_csv = <<>>
  /\ st_read = {}

InitStats ==
  /\ st_pc = "combining"
  /\ st_data \in StatsData
  /\ st_pending = 1..Len(st_data)
  /\ st_accs = [g \in DataGroups |-> EmptyBag]
  /\ st_merges = 0
  /\ st_out = <<>>
  /\ st_csv = <<>>
  /\ st_read = {}

\* The engine opens one more accumulator for a group.  The accumulators of a
\* group form a bag: the engine does not order them.
StCreate(g) ==
  /\ st_pc = "combining"
  /\ BagCardinality(st_accs[g]) < MaxStatAccs
  /\ st_accs' = [st_accs EXCEPT ![g] = @ (+) SetToBag({create_accumulator})]
  /\ UNCHANGED <<st_pc, st_data, st_pending, st_merges, st_out, st_csv,
                 st_read>>
  /\ UNCHANGED notStVars

\* The next input goes to one of its group's accumulators.
StAdd(i, acc) ==
  /\ st_pc = "combining"
  /\ i \in st_pending /\ \A q \in st_pending : i <= q
  /\ BagIn(acc, st_accs[st_data[i].group])
  /\ st_accs' = [st_accs EXCEPT ![st_data[i].group] =
                   (@ (-) SetToBag({acc}))
                     (+) SetToBag({add_input(acc, st_data[i].metric)})]
  /\ st_pending' = st_pending \ {i}
  /\ UNCHANGED <<st_pc, st_data, st_merges, st_out, st_csv, st_read>>
  /\ UNCHANGED notStVars

\* Once the inputs are in, two accumulators of a group are merged, in
\* either order.
StMerge(g, a, b) ==
  /\ st_pc = "combining"
  /\ st_pending = {}
  /\ BagIn(a, st_accs[g]) /\ BagIn(b, st_accs[g])
  /\ a = b => CopiesIn(a, st_accs[g]) > 1
  /\ st_accs' = [st_accs EXCEPT ![g] =
                   ((@ (-) SetToBag({a})) (-) SetToBag({b}))
                     (+) SetToBag({merge_accumulators(a, b)})]
  /\ st_merges' = IF a.count > 0 /\ b.count > 0 /\ st_merges < MaxStatData
                  THEN st_merges + 1 ELSE st_merges
  /\ UNCHANGED <<st_pc, st_data, st_pending, st_out, st_csv, st_read>>
  /\ UNCHANGED notStVars

\* Every input is in, every group is down to one accumulator: the outputs.
StExtract ==
  /\ st_pc = "combining"
  /\ st_pending = {}
  /\ \A g \in DataGroups : BagCardinality(st_accs[g]) = 1
  /\ st_out' = [g \in DataGroups |->
                  extract_output(CHOOSE a \in BagToSet(st_accs[g]) : TRUE,
                                 StatsCsvHeader[8], StatsCsvHeader[7])]
  /\ st_pc' = "extracted"
  /\ UNCHANGED <<st_data, st_pending, st_accs, st_merges, st_csv, st_read>>
  /\ UNCHANGED notStVars

\* StatsToCsv writes the file; the engine fixes the order of the lines.
StWriteCsv ==
  /\ st_pc = "extracted"
  /\ \E order \in [1..Cardinality(DataGroups) -> DataGroups] :
       /\ \A a, b \in DOMAIN order : a # b => order[a] # order[b]
       /\ st_csv' = StatsToCsv(st_out, order)
  /\ st_pc' = "written"
  /\ UNCHANGED <<st_data, st_pending, st_accs, st_merges, st_out, st_read>>
  /\ UNCHANGED notStVars

\* The test reads the file back.
StReadCsv ==
  /\ st_pc = "written"
  /\ st_read' = ReadStatsCsv(st_csv)
  /\ st_pc' = "read"
  /\ UNCHANGED <<st_data, st_pending, st_accs, st_merges, st_out, st_csv>>
  /\ UNCHANGED notStVars

(***************************************************************************)
(* The two scalar analysis functions of the inference pipeline             *)
(* (model_inference_transforms.edit_distance and homopolymer_content), as  *)
(* their tests exercise them.                                              *)
(***************************************************************************)
\* The gap or pad symbol, the one whitespace character of the sequences.
Blank == " "

\* str.replace(' ', ''): the string without its blanks.
StripBlanks(s) == SelectSeq(s, LAMBDA c : c # Blank)

\* One row of the distance table: cur holds the cells already filled of the
\* row of character ch, prev is the row above; each further cell is the
\* least of a deletion, an insertion and a substitution or match.
RECURSIVE FillRow(_, _, _, _)
FillRow(cur, prev, ch, b) ==
  IF Len(cur) = Len(b) + 1 THEN cur
  ELSE LET j == Len(cur)
           cells == {prev[j + 1] + 1, cur[j] + 1,
                     prev[j] + (IF ch = b[j] THEN 0 ELSE 1)}
           least == CHOOSE m \in cells : \A x \in cells : m <= x
       IN FillRow(Append(cur, least), prev, ch, b)

\* The distance table of a and b, filled row by row from the row of the
\* empty prefix; the result is the last cell of the last row.
RECURSIVE LastRow(_, _, _)
LastRow(prev, a, b) ==
  IF a = <<>> THEN prev
  ELSE LastRow(FillRow(<<prev[1] + 1>>, prev, Head(a), b), Tail(a), b)

Levenshtein(a, b) == LastRow([j \in 1..(Len(b) + 1) |-> j - 1], a, b)[Len(b) + 1]

\* The mutant compares the strings as they are, blanks included.
edit_distance_KeepWhitespace(s1, s2) == Levenshtein(s1, s2)

\* edit_distance(s1, s2): the blanks are removed from both strings and the
\* distance of the two remainders is returned.
edit_distance(s1, s2) == Levenshtein(StripBlanks(s1), StripBlanks(s2))

\* itertools.groupby: the lengths of the maximal runs of equal characters,
\* from left to right.
RECURSIVE GroupLengths(_)
GroupLengths(s) ==
  IF s = <<>> THEN <<>>
  ELSE LET n == CHOOSE k \in 1..Len(s) :
                  /\ \A j \in 1..k : s[j] = s[1]
                  /\ k = Len(s) \/ s[k + 1] # s[1]
       IN <<n>> \o GroupLengths(SubSeq(s, n + 1, Len(s)))

\* The mutant counts only the runs of three or more characters.
homopolymer_content_RunsOfThree(seq) ==
  LET s == StripBlanks(seq)
      repeats == SelectSeq(GroupLengths(s), LAMBDA x : x >= 3)
  IN IF s = <<>> THEN 0 ELSE (SumSeq(repeats) * FixedScale) \div Len(s)

\* homopolymer_content(seq): the blanks are removed, the run lengths of
\* two or more are added up and divided by the number of characters left;
\* a string with nothing left gives 0.0.  The result is a fixed-point
\* number with FixedDigits decimals.
homopolymer_content(seq) ==
  LET s == StripBlanks(seq)
      repeats == SelectSeq(GroupLengths(s), LAMBDA x : x >= 2)
  IN IF s = <<>> THEN 0 ELSE (SumSeq(repeats) * FixedScale) \div Len(s)

\* The parameters of EditDistanceTest and of RepeatContentTest, with the
\* results the tests expect (0.75 is 75 hundredths).
EditDistanceTests ==
  { [str1 |-> <<"A", "T", "C", "G">>, str2 |-> <<"A", "T", "C", "G">>,
     expected |-> 0],
    [str1 |-> <<"A", "T", "C", "G">>, str2 |-> <<"T", "T">>, expected |-> 3],
    [str1 |-> <<"A", "T", "C", "G">>, str2 |-> <<"Z", "Z", "Z", "Z">>,
     expected |-> 4],
    [str1 |-> <<" ", "A", " ", "T", " ", "C", " ", "G", " ", " ">>,
     str2 |-> <<"A", "T", "C", "G">>, expected |-> 0] }
RepeatContentTests ==
  { [seq |-> <<" ", " ", " ", " ", " ", " ">>, expected |-> 0],
    [seq |-> <<"A", "B", "C", "D">>, expected |-> 0],
    [seq |-> <<"A", "A", "A", "B", "B", "B", "C", "D">>, expected |-> 75],
    [seq |-> <<"A", "A", "A", "B", "B", "B", "C", "C", "C", "D", "D", "D">>,
     expected |-> 100],
    [seq |-> <<"A", "A", "A", " ", "B", "B", "B", " ", "C", "C", "C", " ",
               "D", "D", "D", " ", " ", " ", " ">>, expected |-> 100] }

\* The strings handed to the two functions: every string of at most
\* MaxSeqLen characters over two bases and the blank, and the tests' own.
AnalysisStrings ==
  UNION {[1..n -> {"A", "C", Blank}] : n \in 0..MaxSeqLen}

AnOff ==
  /\ an_str1 = <<>>
  /\ an_str2 = <<>>
  /\ an_ed = 0
  /\ an_hc = 0
  /\ an_done = {}

InitAnalysis ==
  /\ \/ an_str1 \in AnalysisStrings /\ an_str2 \in AnalysisStrings
     \/ \E t \in EditDistanceTests : an_str1 = t.str1 /\ an_str2 = t.str2
     \/ \E t \in RepeatContentTests : an_str1 = t.seq /\ an_str2 = t.seq
  /\ an_ed = 0
  /\ an_hc = 0
  /\ an_done = {}

\* ed = edit_distance(str1, str2)
AnEditDistance ==
  /\ "edit_distance" \notin an_done
  /\ an_ed' = edit_distance(an_str1, an_str2)
  /\ an_done' = an_done \cup {"edit_distance"}
  /\ UNCHANGED <<an_str1, an_str2, an_hc>>
  /\ UNCHANGED notAnVars

\* hcontent = homopolymer_content(seq)
AnHomopolymerContent ==
  /\ "homopolymer_content" \notin an_done
  /\ an_hc' = homopolymer_content(an_str1)
  /\ an_done' = an_done \cup {"homopolymer_content"}
  /\ UNCHANGED <<an_str1, an_str2, an_ed>>
  /\ UNCHANGED notAnVars

(***************************************************************************)
(* The stitching pipeline (postprocess.stitch_predictions.create_pipeline):*)
(* the windowed predictions are read in any order, grouped by molecule,    *)
(* joined in window order and written as one sequence record a molecule.   *)
(***************************************************************************)
\* The molecules of the input and what a window can hold: the predicted
\* bases of the window and their quality string.
StitchMolecules == {<<"m", "1">>, <<"m", "2">>}
StitchPayloads ==
  { [prediction |-> <<"A", "C">>, quality |-> <<"!", "5">>],
    [prediction |-> <<"G", " ">>, quality |-> <<"5", "!">>] }

\* The windowed predictions of one run: for each molecule the windows that
\* hold a prediction, at the positions 0, width, 2 * width, ...
StitchInputs ==
  LET slots == StitchMolecules \X (0..(MaxWindows - 1))
  IN UNION { [chosen -> StitchPayloads] : chosen \in SUBSET slots }

\* sorted(windows, key=window_pos)
SortByWindowPos(ws) ==
  LET Rank(i) == Cardinality({j \in 1..Len(ws) :
                                ws[j].window_pos < ws[i].window_pos}) + 1
  IN [k \in 1..Len(ws) |-> ws[CHOOSE i \in 1..Len(ws) : Rank(i) = k]]

\* The mutant joins the windows in the order they arrived in.
get_full_sequence_ArrivalOrder(molecule_name, ws) ==
  LET sorted == ws
  IN [id |-> molecule_name \o <<"/", "c", "c", "s">>,
      sequence |-> Concat([k \in 1..Len(sorted) |-> sorted[k].prediction]),
      quality |-> Concat([k \in 1..Len(sorted) |-> sorted[k].quality])]

\* The record of one molecule: its windows sorted by position, their
\* predictions and quality strings joined, the name suffixed with /ccs.
get_full_sequence(molecule_name, ws) ==
  LET sorted == SortByWindowPos(ws)
  IN [id |-> molecule_name \o <<"/", "c", "c", "s">>,
      sequence |-> Concat([k \in 1..Len(sorted) |-> sorted[k].prediction]),
      quality |-> Concat([k \in 1..Len(sorted) |-> sorted[k].quality])]

SpOff ==
  /\ sp_input = <<>>
  /\ sp_groups = <<>>
  /\ sp_fastq = {}

InitStitch ==
  /\ sp_input \in StitchInputs
  /\ sp_groups = [m \in StitchMolecules |-> <<>>]
  /\ sp_fastq = {}

\* beam.GroupByKey: one more window, whichever the runner delivers next,
\* joins the group of its molecule.
SpGroup(slot) ==
  /\ slot \in DOMAIN sp_input
  /\ \A k \in 1..Len(sp_groups[slot[1]]) :
       sp_groups[slot[1]][k].window_pos # slot[2]
  /\ sp_groups' =
       [sp_groups EXCEPT ![slot[1]] =
          Append(@, [window_pos |-> slot[2],
                     prediction |-> sp_input[slot].prediction,
                     quality |-> sp_input[slot].quality])]
  /\ UNCHANGED <<sp_input, sp_fastq>>
  /\ UNCHANGED notSpVars

\* Once every window is grouped, a molecule with windows is stitched and
\* its record written to the full_predictions file.
SpStitch(m) ==
  /\ \A slot \in DOMAIN sp_input :
       \E k \in 1..Len(sp_groups[slot[1]]) :
         sp_groups[slot[1]][k].window_pos = slot[2]
  /\ sp_groups[m] # <<>>
  /\ get_full_sequence(m, sp_groups[m]) \notin sp_fastq
  /\ sp_fastq' = sp_fastq \cup {get_full_sequence(m, sp_groups[m])}
  /\ UNCHANGED <<sp_input, sp_groups>>
  /\ UNCHANGED notSpVars

(***************************************************************************)
(* The review generator of the analysis toolkit                            *)
(* (utils.colab_utils.run_models_and_view_predictions).                    *)
(***************************************************************************)
\* remove_gaps(seq): seq.replace(dc_constants.GAP_OR_PAD, '')
remove_gaps(seq) == SelectSeq(seq, LAMBDA c : c # Blank)

\* check_has_errors(label, pred)
check_has_errors(label, pred) == remove_gaps(label) # remove_gaps(pred)

\* ints_to_bases(bases_row): the vocabulary symbol of every class index.
ints_to_bases(bases_row) ==
  [i \in 1..Len(bases_row) |-> VOCAB[bases_row[i] + 1]]

\* What the generator's arguments can be, what the checkpoint does to the
\* two ways of loading it, and the caller's configuration.
ViewArgs ==
  [dc_errors_only : BOOLEAN, output_diff_ccs : BOOLEAN,
   filter_fn_given : BOOLEAN]
CheckpointKinds ==
  [load_weights : {"ok", "AssertionError", "ValueError"},
   restore : {"ok", "NotFoundError"}]
CallerParams ==
  { [num_epochs |-> 1, batch_size |-> 1, default_batch_size |-> 1,
     buffer_size |-> 100],
    [num_epochs |-> 2, batch_size |-> MaxBatch,
     default_batch_size |-> MaxBatch, buffer_size |-> 1] }

\* The examples of the dataset: the label row and the row the model
\* predicts, as class indices, the ccs_sequence of the decoded record, and
\* what filter_fn answers for the record.
ViewExamples ==
  [label : {<<0, 4>>, <<1, 0>>},
   deepconsensus_pred : {<<0, 4>>, <<4, 0>>, <<1, 0>>},
   ccs_sequence : {<<"A", Blank>>, <<"C", "A">>},
   accepted : BOOLEAN]

\* Lines 164-168: the caller's params are assigned to before the frozen
\* copy is made.
FreezeParams(p) ==
  [p EXCEPT !.num_epochs = 1, !.batch_size = 1,
                 !.default_batch_size = 1, !.buffer_size = 100]

\* The mutant falls back to the checkpoint restore on any exception.
load_model_weights_CatchAny(checkpoint) ==
  IF checkpoint.load_weights = "ok"
  THEN [calls |-> <<"load_weights">>, err |-> ""]
  ELSE [calls |-> <<"load_weights", "restore">>,
        err |-> IF checkpoint.restore = "ok" THEN ""
                ELSE checkpoint.restore]

\* Lines 176-182: model.load_weights, and on an AssertionError only, one
\* tf.train.Checkpoint restore outside any try.
load_model_weights(checkpoint) ==
  IF checkpoint.load_weights = "ok"
  THEN [calls |-> <<"load_weights">>, err |-> ""]
  ELSE IF checkpoint.load_weights = "AssertionError"
  THEN [calls |-> <<"load_weights", "restore">>,
        err |-> IF checkpoint.restore = "ok" THEN ""
                ELSE checkpoint.restore]
  ELSE [calls |-> <<"load_weights">>, err |-> checkpoint.load_weights]

\* The mutant compares the prediction with the ccs_sequence as they are.
YieldsExample_RawCcsCompare(args, ex) ==
  LET label_bases == ints_to_bases(ex.label)
      deepconsensus_pred_bases == ints_to_bases(ex.deepconsensus_pred)
      has_errors == check_has_errors(label_bases, deepconsensus_pred_bases)
  IN IF args.filter_fn_given /\ ~ex.accepted THEN FALSE
     ELSE IF args.dc_errors_only /\ ~has_errors THEN FALSE
     ELSE IF args.output_diff_ccs
             /\ ex.ccs_sequence = deepconsensus_pred_bases THEN FALSE
     ELSE TRUE

\* Lines 184-201, one turn of the loop: FALSE where the body continues,
\* TRUE where it reaches the yield.
YieldsExample(args, ex) ==
  LET label_bases == ints_to_bases(ex.label)
      deepconsensus_pred_bases == ints_to_bases(ex.deepconsensus_pred)
      has_errors == check_has_errors(label_bases, deepconsensus_pred_bases)
  IN IF args.filter_fn_given /\ ~ex.accepted THEN FALSE
     ELSE IF args.dc_errors_only /\ ~has_errors THEN FALSE
     ELSE IF args.output_diff_ccs
             /\ remove_gaps(ex.ccs_sequence)
                  = remove_gaps(deepconsensus_pred_bases) THEN FALSE
     ELSE TRUE

CbOff ==
  /\ cb_pc = "off"
  /\ cb_args = <<>>
  /\ cb_checkpoint = <<>>
  /\ cb_params = <<>>
  /\ cb_loaded = [calls |-> <<>>, err |-> ""]
  /\ cb_seen = <<>>
  /\ cb_yielded = <<>>

InitViewer ==
  /\ cb_pc = "created"
  /\ cb_args \in ViewArgs
  /\ cb_checkpoint \in CheckpointKinds
  /\ cb_params \in CallerParams
  /\ cb_loaded = [calls |-> <<>>, err |-> ""]
  /\ cb_seen = <<>>
  /\ cb_yielded = <<>>

\* The first next() on the generator: lines 161-182 run; an error of the
\* weight loading leaves the generator through the caller.
CbStart ==
  /\ cb_pc = "created"
  /\ cb_params' = FreezeParams(cb_params)
  /\ cb_loaded' = load_model_weights(cb_checkpoint)
  /\ cb_pc' = IF load_model_weights(cb_checkpoint).err = "" THEN "running"
              ELSE "raised"
  /\ UNCHANGED <<cb_args, cb_checkpoint, cb_seen, cb_yielded>>
  /\ UNCHANGED notCbVars

\* One turn of the loop over the dataset, on the example it delivers next.
CbExample(ex) ==
  /\ cb_pc = "running"
  /\ Len(cb_seen) < MaxExamples
  /\ cb_args.filter_fn_given \/ ex.accepted
  /\ cb_seen' = Append(cb_seen, ex)
  /\ cb_yielded' =
       IF YieldsExample(cb_args, ex)
       THEN Append(cb_yielded,
                   [label_bases |-> ints_to_bases(ex.label),
                    deepconsensus_pred_bases |->
                      ints_to_bases(ex.deepconsensus_pred),
                    ccs_sequence |-> ex.ccs_sequence,
                    position |-> Len(cb_seen) + 1])
       ELSE cb_yielded
  /\ UNCHANGED <<cb_pc, cb_args, cb_checkpoint, cb_params, cb_loaded>>
  /\ UNCHANGED notCbVars

\* The dataset is exhausted: the generator returns.
CbExhausted ==
  /\ cb_pc = "running"
  /\ cb_pc' = "exhausted"
  /\ UNCHANGED <<cb_args, cb_checkpoint, cb_params, cb_loaded, cb_seen,
                 cb_yielded>>
  /\ UNCHANGED notCbVars

(***************************************************************************)
(* The result table of the analysis toolkit                                *)
(* (utils.colab_utils.get_results_df).  A data frame is its column names   *)
(* in order and its rows, each a function from the column names.           *)
(***************************************************************************)
NoDataFrame == [err |-> "", columns |-> <<>>, rows |-> <<>>, none |-> TRUE]
DataFrame(columns, rows) ==
  [err |-> "", columns |-> columns, rows |-> rows, none |-> FALSE]
RaisedFrame(e) == [err |-> e, columns |-> <<>>, rows |-> <<>>, none |-> FALSE]

\* pd.read_csv(file, nrows=nrows): the header and at most nrows data rows.
read_csv(file, nrows) ==
  DataFrame(file.columns,
            SubSeq(file.rows, 1,
                   IF Len(file.rows) < nrows THEN Len(file.rows) ELSE nrows))

\* df[name] = values: a list whose length is not the number of rows is a
\* ValueError; a new name becomes the last column.
SetColumn(df, name, values) ==
  IF Len(values) # Len(df.rows) THEN RaisedFrame("ValueError")
  ELSE DataFrame(
         IF \E i \in 1..Len(df.columns) : df.columns[i] = name
         THEN df.columns ELSE Append(df.columns, name),
         [r \in 1..Len(df.rows) |->
            [c \in DOMAIN df.rows[r] \cup {name} |->
               IF c = name THEN values[r] ELSE df.rows[r][c]]])

\* '/'.join(inference_csv.split('/')[-3:-1]): the two path components
\* before the file name, or as many of them as there are.
ExperimentAndWorkUnit(path) ==
  LET n == Len(path)
  IN Join(SubSeq(path, PyMax(n - 2, 1), n - 1), <<"/">>)

\* tf.io.gfile.glob(experiment_pattern.format(experiment)): the files of
\* the experiment, in the order of their work units.
Glob(files, experiment) ==
  LET found == {f \in files : f.path[1] = NatToStr(experiment)}
      Rank(f) == Cardinality({g \in found : DigitVal(g.path[2][1])
                                              < DigitVal(f.path[2][1])}) + 1
  IN [k \in 1..Cardinality(found) |-> CHOOSE f \in found : Rank(f) = k]

\* Lines 213-223, the loop over the files matched so far: each is read,
\* tagged and appended to all_lines; an exception ends the loop.
RECURSIVE ReadAndTag(_, _)
ReadAndTag(inference_csvs, all_lines) ==
  IF inference_csvs = <<>> THEN all_lines
  ELSE LET inference_csv == Head(inference_csvs)
           n_rows == 2
           curr_df == read_csv(inference_csv, n_rows)
           tagged == SetColumn(curr_df, "experiment_and_work_unit",
                       [i \in 1..n_rows |->
                          ExperimentAndWorkUnit(inference_csv.path)])
           typed == IF tagged.err # "" THEN tagged
                    ELSE SetColumn(tagged, "dataset_type",
                                   <<"eval", "hard_eval">>)
       IN IF typed.err # "" THEN typed
          ELSE ReadAndTag(Tail(inference_csvs),
                          IF all_lines.none THEN typed
                          ELSE DataFrame(all_lines.columns,
                                         all_lines.rows \o typed.rows))

\* decimals: int = 5
DefaultDecimals == 5

\* DataFrame.round(decimals) on a value of FixedDigits decimals.
RoundFixed(v, decimals) ==
  IF decimals >= FixedDigits THEN v
  ELSE LET unit == 10 ^ (FixedDigits - decimals)
           low == (v \div unit) * unit
       IN IF 2 * (v - low) < unit THEN low
          ELSE IF 2 * (v - low) > unit THEN low + unit
          ELSE IF (low \div unit) % 2 = 0 THEN low ELSE low + unit

\* get_results_df(experiments, experiment_pattern, decimals), the files
\* standing for what the pattern can match.
get_results_df(experiments, files, decimals) ==
  LET inference_csvs ==
        Concat([k \in 1..Len(experiments) |-> Glob(files, experiments[k])])
      all_lines == ReadAndTag(inference_csvs, NoDataFrame)
      cols == all_lines.columns
      n == Len(cols)
      reordered_columns ==
        SubSeq(cols, n - 1, n) \o SubSeq(cols, 2, n - 2) \o <<cols[1]>>
  IN IF all_lines.err # "" THEN all_lines
     ELSE IF all_lines.none THEN RaisedFrame("AssertionError")
     ELSE DataFrame(
            reordered_columns,
            [r \in 1..Len(all_lines.rows) |->
               [c \in {reordered_columns[i] : i \in 1..Len(reordered_columns)}
                  |-> IF c = "dataset" \/ c = "experiment_and_work_unit"
                         \/ c = "dataset_type"
                      THEN all_lines.rows[r][c]
                      ELSE RoundFixed(all_lines.rows[r][c], decimals)]])

\* The experiment numbers, and the inference.csv files a pattern can match: per experiment and work
\* unit none or one, with the header of run_inference_and_write_results
\* and one data row for every evaluated dataset.
InferenceCsv(experiment, work_unit, n) ==
  [path |-> <<NatToStr(experiment), NatToStr(work_unit),
              <<"i", "n", "f", "e", "r", "e", "n", "c", "e", ".", "c", "s",
                "v">>>>,
   columns |-> <<"dataset", "loss", "accuracy">>,
   rows |-> [r \in 1..n |->
              [dataset |-> <<"p", "a", "t", "h">> \o NatToStr(r),
               loss |-> 100 * r + 10 * experiment + work_unit,
               accuracy |-> 10 * r + work_unit]]]
ResultExperiments == {1, 2}
ResultFiles ==
  LET slots == ResultExperiments \X (1..2)
  IN { {InferenceCsv(s[1], s[2], size[s]) : s \in chosen} :
        chosen \in SUBSET slots, size \in [slots -> 1..MaxCsvRows] }

GrOff ==
  /\ gr_pc = "off"
  /\ gr_experiments = <<>>
  /\ gr_files = {}
  /\ gr_out = NoDataFrame

InitResults ==
  /\ gr_pc = "called"
  /\ gr_experiments \in UNION {[1..n -> ResultExperiments] : n \in 1..2}
  /\ gr_files \in ResultFiles
  /\ gr_out = NoDataFrame

\* df = get_results_df(experiments, experiment_pattern)
GrReturn ==
  /\ gr_pc = "called"
  /\ gr_out' = get_results_df(gr_experiments, gr_files, DefaultDecimals)
  /\ gr_pc' = IF gr_out'.err = "" THEN "returned" ELSE "raised"
  /\ UNCHANGED <<gr_experiments, gr_files>>
  /\ UNCHANGED notGrVars

(***************************************************************************)
(* The base strings of one example (utils.colab_utils.convert_to_bases).   *)
(***************************************************************************)
\* convert_to_bases(rows, label, deepconsensus_pred, max_passes): the rows
\* of the base range whose sum is not 0, each turned into bases, then the
\* label and the prediction.  tf.squeeze leaves a (rows, width) matrix for
\* every width above 1.
convert_to_bases(rows, label, deepconsensus_pred, max_passes) ==
  LET base_indices == get_indices(max_passes).base
      subread_rows_range == base_indices[1]..(base_indices[2] - 1)
      subread_rows == [k \in 1..Cardinality(subread_rows_range) |->
                         rows[base_indices[1] + k]]
      nonzero == SelectSeq(subread_rows, LAMBDA row : SumSeq(row) # 0)
  IN [subread_bases |-> [k \in 1..Len(nonzero) |-> ints_to_bases(nonzero[k])],
      label_bases |-> ints_to_bases(label),
      deepconsensus_pred_bases |-> ints_to_bases(deepconsensus_pred)]

NoBases == [subread_bases |-> <<>>, label_bases |-> <<>>,
            deepconsensus_pred_bases |-> <<>>]

CvOff ==
  /\ cv_pc = "off"
  /\ cv_dc_input = <<>>
  /\ cv_example = <<>>
  /\ cv_out = NoBases

\* One example as the dataset delivers it: the rows and the label encoded
\* from a record of at least two positions, and the row the model predicts.
InitBases ==
  /\ cv_pc = "example"
  /\ \E width \in 2..MaxWidth, n \in 1..MaxSubreads :
       /\ cv_dc_input \in CodecRecords(width, n)
       /\ \E mp \in n..MaxSubreads, pred \in [1..width -> {0, Len(VOCAB) - 1}] :
            cv_example =
              [rows |-> EncodedRows(cv_dc_input, get_total_rows(mp), mp, width),
               label |-> [j \in 1..width |-> VocabIndex(cv_dc_input.label[j])],
               deepconsensus_pred |-> pred,
               max_passes |-> mp]
  /\ cv_out = NoBases

\* subread_bases, label_bases, deepconsensus_pred_bases = convert_to_bases(
\*     rows, label, deepconsensus_pred, params.max_passes)
CvConvert ==
  /\ cv_pc = "example"
  /\ cv_out' = convert_to_bases(cv_example.rows, cv_example.label,
                                cv_example.deepconsensus_pred,
                                cv_example.max_passes)
  /\ cv_pc' = "converted"
  /\ UNCHANGED <<cv_dc_input, cv_example>>
  /\ UNCHANGED notCvVars

(***************************************************************************)
(* An inference.csv written by model_utils.run_inference_and_write_results *)
(* and read back by utils.colab_utils.get_results_df.                      *)
(***************************************************************************)
\* The column names a header can hold, as text and as data-frame keys.
ColumnNames ==
  {[text |-> DatasetWord, key |-> "dataset"],
   [text |-> MetricNames[1], key |-> "loss"],
   [text |-> MetricNames[2], key |-> "acc"]}
ColumnKey(text) == (CHOOSE c \in ColumnNames : c.text = text).key

\* The file pd.read_csv parses from the text of an inference.csv: blank
\* lines are skipped, the first line left is the header, every other one a
\* data row whose cells are numbers except under 'dataset'.
CsvTable(path, content) ==
  LET lines == SelectSeq(Split(content, "\n"), LAMBDA l : l # <<>>)
      header == Split(lines[1], ",")
      columns == [j \in 1..Len(header) |-> ColumnKey(header[j])]
      Cell(line, j) == LET text == Split(line, ",")[j]
                       IN IF columns[j] = "dataset" THEN text
                          ELSE PyInt(text).val * FixedScale
  IN [path |-> path, columns |-> columns,
      rows |-> [r \in 1..(Len(lines) - 1) |->
                 [c \in {columns[j] : j \in 1..Len(columns)} |->
                    Cell(lines[r + 1],
                         CHOOSE j \in 1..Len(columns) : columns[j] = c)]]]

\* out_dir of the run, <experiment>/<work unit> = 1/1, and the file in it.
ReadBackPath ==
  <<NatToStr(1), NatToStr(1),
    <<"i", "n", "f", "e", "r", "e", "n", "c", "e", ".", "c", "s", "v">>>>

RbOff ==
  /\ rb_pc = "off"
  /\ rb_params = [eval_path |-> <<"e">>, hard_eval_path |-> <<>>]
  /\ rb_histories = <<>>
  /\ rb_file = <<>>
  /\ rb_out = NoDataFrame

InitReadBack ==
  /\ rb_pc = "called"
  /\ rb_params \in InferenceParams
  /\ rb_histories = <<>>
  /\ rb_file = <<>>
  /\ rb_out = NoDataFrame

\* run_inference_and_write_results(model, out_dir, params): every dataset
\* of eval_paths is evaluated and inference.csv is written.
RbWrite ==
  /\ rb_pc = "called"
  /\ LET paths == EvalPaths(rb_params)
     IN \E hs \in [1..Len(paths) -> Histories] :
          /\ rb_histories' = hs
          /\ rb_file' = LogsContent([i \in 1..Len(paths) |->
                                       DatasetLine(paths[i], hs[i])],
                                    MetricNames)
  /\ rb_pc' = "written"
  /\ UNCHANGED <<rb_params, rb_out>>
  /\ UNCHANGED notRbVars

\* get_results_df([1], pattern) with the pattern matching the file just
\* written.
RbRead ==
  /\ rb_pc = "written"
  /\ rb_out' = get_results_df(<<1>>, {CsvTable(ReadBackPath, rb_file)},
                              DefaultDecimals)
  /\ rb_pc' = IF rb_out'.err = "" THEN "returned" ELSE "raised"
  /\ UNCHANGED <<rb_params, rb_histories, rb_file>>
  /\ UNCHANGED notRbVars

(***************************************************************************)
(* utils.colab_utils.dataset_generator_fn, and the prologue it shares      *)
(* with run_models_and_view_predictions: the caller's params, the frozen   *)
(* copy the generator works with, and the records it yields.               *)
(***************************************************************************)
Generators == {"dataset_generator_fn", "run_models_and_view_predictions"}

DgOff ==
  /\ dg_pc = "off"
  /\ dg_call = [generator |-> "dataset_generator_fn",
                filter_fn_given |-> FALSE]
  /\ dg_given = <<>>
  /\ dg_params = <<>>
  /\ dg_frozen = <<>>
  /\ dg_seen = <<>>
  /\ dg_yielded = <<>>

\* A generator object has been created from the caller's params; its body
\* has not run yet.
InitGenerator ==
  /\ dg_pc = "created"
  /\ dg_call \in [generator : Generators, filter_fn_given : BOOLEAN]
  /\ dg_given \in CallerParams
  /\ dg_params = dg_given
  /\ dg_frozen = <<>>
  /\ dg_seen = <<>>
  /\ dg_yielded = <<>>

\* The first next(): lines 130-141 of dataset_generator_fn, lines 161-173
\* of run_models_and_view_predictions.  The four assignments go to the
\* object the caller passed; FrozenConfigDict(params) then copies it into
\* the local name.
DgStart ==
  /\ dg_pc = "created"
  /\ dg_params' = FreezeParams(dg_params)
  /\ dg_frozen' = FreezeParams(dg_params)
  /\ dg_pc' = "running"
  /\ UNCHANGED <<dg_call, dg_given, dg_seen, dg_yielded>>
  /\ UNCHANGED notDgVars

\* Lines 143-148, one turn of the loop of dataset_generator_fn: a record
\* filter_fn rejects is skipped, any other is yielded.
DgExample(ex) ==
  /\ dg_pc = "running"
  /\ dg_call.generator = "dataset_generator_fn"
  /\ Len(dg_seen) < MaxExamples
  /\ dg_call.filter_fn_given \/ ex.accepted
  /\ dg_seen' = Append(dg_seen, ex)
  /\ dg_yielded' = IF dg_call.filter_fn_given /\ ~ex.accepted
                     THEN dg_yielded
                   ELSE Append(dg_yielded, ex)
  /\ UNCHANGED <<dg_pc, dg_call, dg_given, dg_params, dg_frozen>>
  /\ UNCHANGED notDgVars

\* The dataset is exhausted, or the caller drops the generator.
DgExhausted ==
  /\ dg_pc = "running"
  /\ dg_pc' = "exhausted"
  /\ UNCHANGED <<dg_call, dg_given, dg_params, dg_frozen, dg_seen,
                 dg_yielded>>
  /\ UNCHANGED notDgVars

(***************************************************************************)
(* The specifications: one per subsystem, the others idle.                 *)
(***************************************************************************)
Idle(running) ==
  /\ IF running = "modify_params" THEN TRUE ELSE MpOff
  /\ IF running = "inference" THEN TRUE ELSE InfOff
  /\ IF running = "codec" THEN TRUE ELSE CodecOff
  /\ IF running = "majority_vote" THEN TRUE ELSE MvOff
  /\ IF running = "forward" THEN TRUE ELSE FwdOff
  /\ IF running = "stats" THEN TRUE ELSE StatsOff
  /\ IF running = "analysis" THEN TRUE ELSE AnOff
  /\ IF running = "stitch" THEN TRUE ELSE SpOff
  /\ IF running = "viewer" THEN TRUE ELSE CbOff
  /\ IF running = "results" THEN TRUE ELSE GrOff
  /\ IF running = "bases" THEN TRUE ELSE CvOff
  /\ IF running = "read_back" THEN TRUE ELSE RbOff
  /\ IF running = "generators" THEN TRUE ELSE DgOff

Init == Idle("modify_params") /\ InitParams
Next == ModifyParams
Spec == Init /\ [][Next]_vars

InitInf == Idle("inference") /\ InitInference
NextInf == InfOpen \/ InfEvaluate \/ InfEvaluateRaises \/ InfWrite
SpecInference == InitInf /\ [][NextInf]_vars

InitCodecSpec == Idle("codec") /\ InitCodec
NextCodec == CodecEncode \/ CodecSerialize \/ CodecParse
SpecCodec == InitCodecSpec /\ [][NextCodec]_vars

InitMv == Idle("majority_vote") /\ InitMajorityVote
NextMv == MvMain \/ MvConstruct \/ (\E r \in MvRecords : MvStep(r)) \/ MvFinish
SpecMajorityVote == InitMv /\ [][NextMv]_vars

InitFwd == Idle("forward") /\ InitForward
NextFwd == FwdCall \/ FwdDecode
SpecForward == InitFwd /\ [][NextFwd]_vars

InitSt == Idle("stats") /\ InitStats
NextSt ==
  \/ \E g \in DataGroups : StCreate(g)
  \/ \E i \in st_pending :
       \E acc \in BagToSet(st_accs[st_data[i].group]) : StAdd(i, acc)
  \/ \E g \in DataGroups :
       \E a, b \in BagToSet(st_accs[g]) : StMerge(g, a, b)
  \/ StExtract
  \/ StWriteCsv
  \/ StReadCsv
SpecStats == InitSt /\ [][NextSt]_vars

InitAn == Idle("analysis") /\ InitAnalysis
NextAn == AnEditDistance \/ AnHomopolymerContent
SpecAnalysis == InitAn /\ [][NextAn]_vars

InitSp == Idle("stitch") /\ InitStitch
NextSp ==
  \/ \E slot \in DOMAIN sp_input : SpGroup(slot)
  \/ \E m \in StitchMolecules : SpStitch(m)
SpecStitch == InitSp /\ [][NextSp]_vars

InitCb == Idle("viewer") /\ InitViewer
NextCb == CbStart \/ (\E ex \in ViewExamples : CbExample(ex)) \/ CbExhausted
SpecViewer == InitCb /\ [][NextCb]_vars

InitGr == Idle("results") /\ InitResults
NextGr == GrReturn
SpecResults == InitGr /\ [][NextGr]_vars

InitCv == Idle("bases") /\ InitBases
NextCv == CvConvert
SpecBases == InitCv /\ [][NextCv]_vars

InitRb == Idle("read_back") /\ InitReadBack
NextRb == RbWrite \/ RbRead
SpecReadBack == InitRb /\ [][NextRb]_vars

InitDg == Idle("generators") /\ InitGenerator
NextDg == DgStart \/ (\E ex \in ViewExamples : DgExample(ex)) \/ DgExhausted
SpecGenerators == InitDg /\ [][NextDg]_vars

(***************************************************************************)
(* Properties of modify_params.                                            *)
(***************************************************************************)
Called == Len(mp_log) > 0
LastCall == mp_log[Len(mp_log)]
Completed == Called /\ LastCall.err = ""

\* The tpu argument selects the TPU branch (line 152).
TpuRequested == ~tpu.none

\* The topology string parses to exactly two positive integers.
ParsesToTwoPositive(t) ==
  /\ ~t.none
  /\ LET pieces == Split(t.str, "x")
     IN /\ Len(pieces) = 2
        /\ \A i \in 1..2 : ~PyInt(pieces[i]).err /\ PyInt(pieces[i]).val > 0

\* C2: a second modify_params call with the same arguments and the same
\* hardware and files leaves every field as the first call left it.
C2_Idempotent ==
  (Len(mp_log) >= 2 /\ mp_log[1].err = "" /\ mp_log[2].err = "")
    => mp_log[2].after = mp_log[1].after

\* C3: after a successful call batch_size is the initial batch_size times the
\* GPU count with a GPU present, times tpu_scale_factor * (N * M * 2) with no
\* GPU and a TPU of topology 'NxM', and unchanged with neither.
C3_BatchSizeScaling ==
  Completed =>
    LET b0 == LastCall.before["batch_size"]
        b1 == LastCall.after["batch_size"]
        scale == LastCall.before["tpu_scale_factor"]
    IN /\ (num_gpus > 0) => (b1 = b0 * num_gpus)
       /\ (num_gpus = 0 /\ TpuRequested) =>
            \A n, m \in 1..MaxTopoDim :
              (tpu_topology = Str(IntToStr(n) \o X \o IntToStr(m)))
                => (b1 = (b0 * scale) * ((n * m) * 2))
       /\ (num_gpus = 0 /\ ~TpuRequested) => (b1 = b0)

C3_Witness ==
  /\ Completed /\ num_gpus = 0 /\ TpuRequested
  /\ tpu_topology = Str(<<"2", "x", "1">>)
  /\ LastCall.before["batch_size"] = 2
  /\ LastCall.after["batch_size"] = 2 * MaxTpuScale * 4

\* C4: with a TPU requested, every topology string that does not parse to
\* exactly two positive integers makes modify_params fail.
C4_MalformedTopologyFails ==
  (Called /\ num_gpus = 0 /\ TpuRequested /\ ~ParsesToTwoPositive(tpu_topology))
    => (LastCall.err # "")

\* C5: with a GPU present and a TPU requested modify_params fails and
\* batch_size is not scaled.
C5_GpuAndTpuFails ==
  (Called /\ num_gpus > 0 /\ TpuRequested)
    => (LastCall.err # ""
        /\ LastCall.after["batch_size"] = LastCall.before["batch_size"])

\* C6: hidden_size as derived (before the model-specific parameters): for
\* transformer_learn_values the enabled per-subread channel widths times
\* max_passes, plus 4 * sn width, plus the ccs width; for every other model
\* the row-layout total; rounded up to even for the transformer family.
ChannelWidth(p, flag, size) == IF p[flag] THEN p[size] ELSE 0
ExpectedHiddenSize(p) ==
  LET raw == IF p["model_name"] = "transformer_learn_values"
             THEN p["max_passes"] * ChannelWidth(p, "use_bases", "per_base_hidden_size")
                  + p["max_passes"] * ChannelWidth(p, "use_pw", "pw_hidden_size")
                  + p["max_passes"] * ChannelWidth(p, "use_ip", "ip_hidden_size")
                  + p["max_passes"] * ChannelWidth(p, "use_strand", "strand_hidden_size")
                  + p["max_passes"] * ChannelWidth(p, "use_dnabert", "dnabert_desired_hidden_size")
                  + 4 * ChannelWidth(p, "use_sn", "sn_hidden_size")
                  + ChannelWidth(p, "use_ccs", "per_base_hidden_size")
             ELSE get_total_rows(p["max_passes"])
  IN IF p["model_name"] \in {"transformer", "transformer_learn_values"}
     THEN 2 * ((raw + 1) \div 2)
     ELSE raw

C6_HiddenSizeDerivation ==
  Completed => (LastCall.derived = ExpectedHiddenSize(LastCall.after))

C6_Witness ==
  /\ Completed
  /\ LastCall.after["model_name"] = "transformer_learn_values"
  /\ LET q == LastCall.after
         raw == q["max_passes"] * q["pw_hidden_size"]
                  + 4 * q["sn_hidden_size"] + q["per_base_hidden_size"]
     IN /\ q["use_pw"] /\ q["use_sn"] /\ q["use_ccs"]
        /\ ~q["use_bases"] /\ ~q["use_ip"] /\ ~q["use_strand"]
        /\ ~q["use_dnabert"]
        /\ raw % 2 = 1
        /\ LastCall.derived = raw + 1

TransformerFamily == {"transformer", "transformer_learn_values"}

\* C25: after a successful modify_params call for 'transformer' or
\* 'transformer_learn_values' the final hidden_size is even, also when
\* condense_transformer_input replaces it with transformer_input_size.
C25_TransformerHiddenSizeEven ==
  (Completed /\ LastCall.after["model_name"] \in TransformerFamily) =>
    LastCall.after["hidden_size"] % 2 = 0

\* C7 as stated: for conv_net the final hidden_size is
\* max(32, get_total_rows(max_passes)).
C7_FloorsRowTotal ==
  (Completed /\ LastCall.after["model_name"] = "conv_net")
    => LET rows == get_total_rows(LastCall.after["max_passes"])
       IN LastCall.after["hidden_size"] = (IF rows > 32 THEN rows ELSE 32)

\* C7 amended: for conv_net the final hidden_size is max(32, max_passes); it
\* is never below 32.
C7_ConvNetHeight ==
  (Completed /\ LastCall.after["model_name"] = "conv_net")
    => LET mp == LastCall.after["max_passes"]
       IN /\ LastCall.after["hidden_size"] = (IF mp > 32 THEN mp ELSE 32)
          /\ LastCall.after["hidden_size"] >= 32

C7_Witness ==
  /\ Completed /\ LastCall.after["model_name"] = "conv_net"
  /\ LastCall.after["hidden_size"] = 32
  /\ LastCall.derived > 32

\* C8: the merge of the transformer preset keeps every key present before it
\* and adds every absent preset key with the preset's value.
C8_MergeAddsOnlyAbsentKeys ==
  (Completed /\ LastCall.after["model_name"] \in {"transformer", "transformer_learn_values"})
    => LET pre == LastCall.premerge
           post == LastCall.after
           preset == get_model_params(post["transformer_model_size"], num_gpus)
       IN /\ \A k \in DOMAIN pre : k \in DOMAIN post /\ post[k] = pre[k]
          /\ \A k \in (DOMAIN preset) \ (DOMAIN pre) :
               k \in DOMAIN post /\ post[k] = preset[k]
          /\ DOMAIN post = (DOMAIN pre) \cup (DOMAIN preset)
          /\ post["hidden_size"] = pre["hidden_size"]
          /\ post["batch_size"] = pre["batch_size"]
          /\ post["default_batch_size"] = pre["batch_size"]

C8_Witness ==
  /\ Completed /\ Len(mp_log) = 1
  /\ LastCall.after["model_name"] = "transformer"
  /\ "num_heads" \in DOMAIN LastCall.premerge
  /\ LastCall.after["num_heads"] = 2
  /\ "learning_rate_warmup_steps" \notin DOMAIN LastCall.premerge
  /\ LastCall.after["learning_rate_warmup_steps"] = 8000
  /\ LastCall.after["hidden_size"] # 512
  /\ LastCall.after["default_batch_size"] = LastCall.after["batch_size"]

\* C10: with no file matching the sharded train path get_record_shape
\* raises, and modify_params does not complete or set max_length.
C10_NoFilesIsAnError ==
  /\ \A path \in TrainPaths :
       (shards[path] = 0) => (get_record_shape(path, shards).err # ""
                              /\ extract_max_length(path, shards).err # ""
                              /\ extract_example_height(path, shards).err # "")
  /\ (Called /\ shards[LastCall.after["train_path"]] = 0)
       => /\ LastCall.err # ""
          /\ ("max_length" \in DOMAIN LastCall.after)
               => /\ "max_length" \in DOMAIN LastCall.before
                  /\ LastCall.after["max_length"] = LastCall.before["max_length"]

C10_Witness ==
  /\ Called /\ LastCall.err = "NoRecords"
  /\ shards[LastCall.after["train_path"]] = 0
  /\ "max_length" \notin DOMAIN LastCall.after

(***************************************************************************)
(* Properties of run_inference_and_write_results.                          *)
(***************************************************************************)
\* The lines of inference.csv: the content split at each newline.
FileLines == Split(logs_file.content, "\n")

\* The datasets the call evaluates, in order.
ExpectedDatasets ==
  IF inf_params.hard_eval_path # <<>>
  THEN <<inf_params.eval_path, inf_params.hard_eval_path>>
  ELSE <<inf_params.eval_path>>

\* C9: inference.csv is the header 'dataset,<metric names>', then one line
\* per evaluated dataset, eval path first and the hard-eval path second when
\* it is configured; the metric names are read after the last evaluation.
C9_InferenceCsvLayout ==
  (inf_pc = "done") =>
    LET n == Len(ExpectedDatasets)
    IN /\ Len(FileLines) >= n + 1
       /\ Split(FileLines[1], ",") = <<DatasetWord>> \o MetricNames
       /\ \A i \in 1..n :
            LET cells == Split(FileLines[i + 1], ",")
            IN /\ Len(cells) = 1 + Len(MetricNames)
               /\ cells[1] = ExpectedDatasets[i]
               /\ \A j \in 1..Len(MetricNames) :
                    cells[j + 1] = IntToStr(inf_histories[i][j])
       /\ \A i \in (n + 2)..Len(FileLines) : FileLines[i] = <<>>
       /\ names_read_at = n
       /\ Len(inf_histories) = n

C9_Witness ==
  /\ inf_pc = "done"
  /\ inf_params.hard_eval_path = <<"h">>
  /\ Len(FileLines) = 5
  /\ FileLines[2] = <<"e", ",", "1", ",", "2">>
  /\ FileLines[3] = <<"h", ",", "0", ",", "1">>
  /\ names_read_at = 2

(***************************************************************************)
(* Properties of the record codec.                                         *)
(***************************************************************************)
\* C1: encoding a record at example_height = get_total_rows(max_passes),
\* serializing and parsing it back gives the rows and the label of the
\* example byte for byte, the record's num_passes and the record itself.
C1_CodecRoundTrip ==
  (codec_pc = "parsed") =>
    LET height == get_total_rows(codec_params.max_passes)
        width == codec_params.max_length
    IN /\ Flatten(parsed_output.rows, height, width)
            = tf_example.subreads_encoded
       /\ \A k \in 1..Len(dc_input.subreads) : \A j \in 1..width :
            VOCAB[parsed_output.rows[k][j] + 1] = dc_input.subreads[k].bases[j]
       /\ parsed_output.label = tf_example.label_encoded
       /\ \A j \in 1..width :
            VOCAB[parsed_output.label[j] + 1] = dc_input.label[j]
       /\ parsed_output.num_passes = Len(dc_input.subreads)
       /\ parsed_output.dc_input = dc_input

C1_Witness ==
  /\ codec_pc = "parsed"
  /\ Len(dc_input.subreads) = 2
  /\ codec_params.max_length = 2
  /\ dc_input.subreads[1].bases = <<"A", "G">>
  /\ dc_input.subreads[2].bases = <<"G", " ">>
  /\ parsed_output.rows[1] = <<0, 2>>
  /\ parsed_output.rows[2] = <<2, 4>>
  /\ parsed_output.dc_input = dc_input

(***************************************************************************)
(* Properties of the majority-vote command line.                           *)
(***************************************************************************)
MvExpectedPrefix ==
  PathJoin(mv_flags.output_path.path,
           IF mv_flags.proto_class = "Example" THEN "deepconsensus/tf_examples"
           ELSE "deepconsensus/deepconsensus")

\* C11: main raises a usage error when --input_tfrecords_path is missing and
\* when --write_errors is set without --output_path; main then stops before
\* the pipeline is created or run: no stage exists, no record has been read
\* or counted and nothing has been written.
C11_UsageErrors ==
  mv_pc \notin {"off", "main"} =>
    /\ (mv_flags.input_tfrecords_path.none
          \/ (mv_flags.write_errors /\ mv_flags.output_path.none))
         => mv_pc = "usage_error"
    /\ mv_pc = "usage_error" =>
         /\ mv_stages = <<>>
         /\ \A r \in MvRecords : mv_at[r] = 0 /\ mv_log[r] = <<>>
         /\ mv_counted = {} /\ mv_sink = {} /\ mv_files = {}

C11_Witness ==
  /\ mv_pc = "usage_error"
  /\ ~mv_flags.input_tfrecords_path.none
  /\ mv_flags.write_errors /\ mv_flags.output_path.none

\* C12: what the pipeline writes depends only on write_errors and
\* proto_class: without write_errors no record reaches a sink and no file is
\* written, whatever output_path is; with write_errors a completed run
\* leaves its files under <output_path>/deepconsensus/deepconsensus for
\* 'DeepConsensusInput' and under <output_path>/deepconsensus/tf_examples for
\* 'Example', nowhere else, and they hold hard examples only.
C12_OutputsByFlags ==
  /\ ~mv_flags.write_errors => mv_files = {} /\ mv_sink = {}
  /\ \A f \in mv_files :
       /\ f.prefix = MvExpectedPrefix
       /\ \A r \in f.records : mv_hard[r]
  /\ (mv_pc = "done" /\ mv_flags.write_errors) => mv_files # {}

C12_Witness ==
  /\ mv_pc = "done"
  /\ mv_flags.proto_class = "Example"
  /\ \E f \in mv_files : f.records # {}

\* The place of each transform in the order of the majority-vote steps.
StagePhase(s) ==
  CASE s \in {"read_deepconsensus_input", "read_tf_example"} -> 1
    [] s = "get_deepconsensus_input" -> 2
    [] s = "reshuffle" -> 3
    [] s = "chunk_windows" -> 4
    [] s = "get_consensus_from_majority_vote" -> 5
    [] s = "count_matches_sequence_only" -> 6
    [] s = "get_hard_ex" -> 7
    [] s = "convert_to_tf_ex_train" -> 8
    [] s = "write_hard_ex" -> 9
    [] OTHER -> 0

PhasesOf(log) == {StagePhase(log[i]) : i \in 1..Len(log)}

\* C24: every record passes the stages in the order read (then, for
\* 'Example', extraction of the embedded record), reshuffle, window
\* splitting (iff example_width is given), majority vote, match counting,
\* hard-example extraction and write (iff write_errors); so a hard example
\* written has been counted, and windowing never follows voting.
C24_StageOrder ==
  /\ \A r \in MvRecords :
       /\ \A i \in 1..Len(mv_log[r]) : StagePhase(mv_log[r][i]) # 0
       /\ \A i, j \in 1..Len(mv_log[r]) :
            i < j => StagePhase(mv_log[r][i]) < StagePhase(mv_log[r][j])
       /\ mv_log[r] # <<>> =>
            /\ StagePhase(mv_log[r][1]) = 1
            /\ Len(mv_log[r]) > 1 =>
                 (2 \in PhasesOf(mv_log[r]) <=>
                    mv_flags.proto_class = "Example")
       /\ 5 \in PhasesOf(mv_log[r]) =>
            /\ 3 \in PhasesOf(mv_log[r])
            /\ 4 \in PhasesOf(mv_log[r]) <=> ~mv_flags.example_width.none
       /\ 7 \in PhasesOf(mv_log[r]) =>
            /\ mv_flags.write_errors
            /\ {5, 6} \subseteq PhasesOf(mv_log[r])
       /\ 9 \in PhasesOf(mv_log[r]) => 7 \in PhasesOf(mv_log[r])
       /\ mv_pc = "done" =>
            /\ {1, 3, 5, 6} \subseteq PhasesOf(mv_log[r])
            /\ 7 \in PhasesOf(mv_log[r]) <=> mv_flags.write_errors
            /\ 9 \in PhasesOf(mv_log[r]) <=>
                 (mv_flags.write_errors /\ mv_hard[r])
  /\ mv_sink \subseteq mv_counted
  /\ \A r \in mv_sink : 9 \in PhasesOf(mv_log[r])

C24_Witness ==
  /\ mv_pc = "done"
  /\ ~mv_flags.example_width.none
  /\ mv_flags.proto_class = "Example"
  /\ mv_sink # {}
  /\ mv_sink # MvRecords

(***************************************************************************)
(* Properties of the forward pass.                                         *)
(***************************************************************************)
ConfiguredShape ==
  /\ fwd_input[2] = fwd_params["hidden_size"]
  /\ fwd_input[3] = fwd_params["max_length"]
  /\ fwd_input[4] = fwd_params["num_channels"]

\* C13: for every architecture and every input batch of the configured
\* shape (batch, hidden_size, max_length, num_channels) the forward pass
\* returns one class distribution per window position, and the decoded
\* prediction has length max_length, holds vocabulary symbols only and
\* comes with a non-empty quality string.
C13_ForwardPassContract ==
  (fwd_pc \notin {"off", "start"} /\ ConfiguredShape) =>
    /\ fwd_pc # "failed"
    /\ fwd_out.shape = <<fwd_input[1], fwd_params["max_length"],
                          Len(VOCAB)>>
    /\ fwd_pc = "decoded" =>
         /\ Len(fwd_record.deepconsensus_prediction) = fwd_params["max_length"]
         /\ \A i \in 1..Len(fwd_record.deepconsensus_prediction) :
              \E v \in 1..Len(VOCAB) :
                fwd_record.deepconsensus_prediction[i] = VOCAB[v]
         /\ fwd_record.quality_string # <<>>

\* C22: the convolutional model splits a 4-channel input with the sizes
\* [3, 1, 1], which account for exactly the channels of the input, so its
\* forward pass succeeds on every batch of shape (batch, hidden_size,
\* max_length, 4).
C22_ConvNetAcceptsFourChannels ==
  (/\ fwd_pc \notin {"off", "start"}
   /\ fwd_params["model_name"] = "conv_net"
   /\ fwd_input[4] = 4
   /\ ConfiguredShape) =>
    /\ SumSeq(ConvSplitSizes) = fwd_input[4]
    /\ fwd_out.err = ""
    /\ fwd_out.shape = <<fwd_input[1], fwd_params["max_length"],
                          fwd_params["num_classes"]>>

\* C23: in the encoder-only transformers the encoder stack always receives
\* an even width equal to params.hidden_size, an all-zero column having
\* been appended to an odd input, whatever add_pos_encoding and
\* use_relative_pos_enc are.
C23_EncoderReceivesEvenWidth ==
  (/\ fwd_pc \in {"called", "decoded"}
   /\ fwd_params["model_name"] \in TransformerFamily) =>
    /\ fwd_out.encoder_width % 2 = 0
    /\ fwd_out.encoder_width = fwd_params["hidden_size"]

\* C26: whatever channels are enabled, every layer that
\* EncoderOnlyLearnedValuesTransformer.encode uses was created by the
\* constructor: the input condenser whenever condense_transformer_input is
\* set, the bases embedding table whenever use_ccs is set.
C26_UsedLayersWereCreated ==
  (/\ fwd_pc \notin {"off", "start"}
   /\ fwd_params["model_name"] = "transformer_learn_values") =>
    /\ fwd_out.err # "AttributeError"
    /\ fwd_out.used \subseteq LearnedValuesLayers(fwd_params)
    /\ fwd_params["condense_transformer_input"] =>
         "transformer_input_condenser" \in LearnedValuesLayers(fwd_params)
    /\ fwd_params["use_ccs"] =>
         "bases_embedding_layer" \in LearnedValuesLayers(fwd_params)

\* The width modify_params derives for 'transformer_learn_values' before it
\* makes an odd value even.
DerivedBeforeAdjustment(p) ==
  p["max_passes"] * (ChannelWidth(p, "use_bases", "per_base_hidden_size")
                     + ChannelWidth(p, "use_pw", "pw_hidden_size")
                     + ChannelWidth(p, "use_ip", "ip_hidden_size")
                     + ChannelWidth(p, "use_strand", "strand_hidden_size")
                     + ChannelWidth(p, "use_dnabert",
                                    "dnabert_desired_hidden_size"))
  + 4 * ChannelWidth(p, "use_sn", "sn_hidden_size")
  + ChannelWidth(p, "use_ccs", "per_base_hidden_size")

EncoderInputWidth ==
  IF fwd_params["model_name"] = "transformer_learn_values"
    THEN EmbeddedWidth(EmbeddedParts(fwd_params))
  ELSE fwd_input[2]

\* C28: the zero column appended to an odd encoder input has the batch
\* dimension of the input, so the padding works for every runtime batch
\* size, a final batch smaller than params.batch_size included.
C28_PaddingFitsEveryBatch ==
  (/\ fwd_pc \notin {"off", "start"}
   /\ fwd_params["model_name"] \in TransformerFamily
   /\ fwd_params["model_name"] = "transformer_learn_values" =>
        ~fwd_params["condense_transformer_input"]
   /\ fwd_params["add_pos_encoding"]
   /\ fwd_input[2] = get_total_rows(fwd_params["max_passes"])
   /\ fwd_input[1] <= fwd_params["batch_size"]
   /\ EncoderInputWidth % 2 # 0
   /\ fwd_out.err # "AttributeError") =>
    /\ fwd_out.err = ""
    /\ fwd_out.shape[1] = fwd_input[1]
    /\ fwd_out.encoder_width = EncoderInputWidth + 1

(***************************************************************************)
(* Properties of the Stats combiner.                                       *)
(***************************************************************************)
RECURSIVE SumOver(_, _)
SumOver(S, f) == IF S = {} THEN 0
                 ELSE LET x == CHOOSE y \in S : TRUE
                      IN f[x] + SumOver(S \ {x}, f)

\* The statistics of one group computed directly from its raw values, with
\* the two-pass formula for the population variance.
DirectStats(g) ==
  LET idx == {i \in 1..Len(st_data) : st_data[i].group = g}
      n == Cardinality(idx)
      val == [i \in idx |-> st_data[i].metric]
      total == SumOver(idx, val)
      dev == [i \in idx |-> (n * val[i] - total) * (n * val[i] - total)]
      lo == CHOOSE v \in {val[i] : i \in idx} : \A i \in idx : v <= val[i]
      hi == CHOOSE v \in {val[i] : i \in idx} : \A i \in idx : v >= val[i]
  IN [count |-> n,
      mean |-> (total * FixedScale) \div n,
      stddev |-> ISqrt((SumOver(idx, dev) * FixedScale * FixedScale) \div (n * n * n),
                       TopStatValue * FixedScale),
      min |-> lo * FixedScale,
      max |-> hi * FixedScale,
      metric |-> StatsCsvHeader[7],
      group |-> StatsCsvHeader[8]]

\* C14: whatever accumulators a group's values were spread over and in
\* whatever order they were merged, the combiner's count, mean, population
\* standard deviation, min and max of each group are those computed
\* directly from the group's raw values, tagged with the metric and group
\* names; and the rows read back from the StatsToCsv file are the same.
C14_StatsMatchDirect ==
  /\ st_pc \in {"extracted", "written", "read"} =>
       /\ DOMAIN st_out = DataGroups
       /\ \A g \in DataGroups : st_out[g] = DirectStats(g)
  /\ st_pc = "read" =>
       st_read = {[group_val |-> g, data |-> DirectStats(g)] : g \in DataGroups}

C14_Witness ==
  /\ st_pc = "read"
  /\ st_merges > 0
  /\ \E r \in st_read : r.data.stddev > 0 /\ r.data.min < r.data.mean
  /\ Cardinality(st_read) > 1

(***************************************************************************)
(* Properties of the scalar analysis functions.                            *)
(***************************************************************************)
\* The strings one insertion, deletion or substitution away from s, over
\* the characters of sigma and of at most the given length.
SingleEdits(s, sigma, most) ==
  {SubSeq(s, 1, i - 1) \o SubSeq(s, i + 1, Len(s)) : i \in 1..Len(s)}
  \cup {SubSeq(s, 1, i - 1) \o <<c>> \o SubSeq(s, i + 1, Len(s)) :
          i \in 1..Len(s), c \in sigma}
  \cup (IF Len(s) >= most THEN {}
        ELSE {SubSeq(s, 1, i) \o <<c>> \o SubSeq(s, i + 1, Len(s)) :
               i \in 0..Len(s), c \in sigma})

\* The least number of single edits that turn a string of S into b, S
\* being the strings k edits away from the start and seen the strings at
\* most k edits away: one more edit at a time until b is among them.
RECURSIVE EditsUntil(_, _, _, _, _, _)
EditsUntil(S, seen, k, b, sigma, most) ==
  IF b \in S THEN k
  ELSE LET further == UNION {SingleEdits(s, sigma, most) : s \in S} \ seen
       IN EditsUntil(further, seen \cup further, k + 1, b, sigma, most)

\* The least number of single edits that turn a into b.
MinEdits(a, b) ==
  LET sigma == {a[i] : i \in 1..Len(a)} \cup {b[i] : i \in 1..Len(b)}
  IN EditsUntil({a}, {a}, 0, b, sigma, PyMax(Len(a), Len(b)))

\* C15: edit_distance(s1, s2) is the least number of single-character
\* insertions, deletions and substitutions that turn s1 into s2 once the
\* whitespace of both is ignored; it is 0 exactly when the two strings are
\* equal up to whitespace, and it is what EditDistanceTest expects.
C15_EditDistanceIsLevenshtein ==
  "edit_distance" \in an_done =>
    /\ an_ed = MinEdits(StripBlanks(an_str1), StripBlanks(an_str2))
    /\ (an_ed = 0) <=> (StripBlanks(an_str1) = StripBlanks(an_str2))
    /\ \A t \in EditDistanceTests :
         (an_str1 = t.str1 /\ an_str2 = t.str2) => an_ed = t.expected

C15_Witness ==
  /\ "edit_distance" \in an_done
  /\ an_ed >= 2
  /\ Len(StripBlanks(an_str1)) < Len(an_str1)
  /\ Len(StripBlanks(an_str2)) > Len(StripBlanks(an_str1))
  /\ an_ed < Len(StripBlanks(an_str2))

\* C16: homopolymer_content(seq) is the number of non-whitespace
\* characters of seq with an equal neighbour (whitespace apart) divided by
\* the number of non-whitespace characters; it is 0.0 when no character
\* has one and 0.0 when seq is empty or all whitespace, and it is what
\* RepeatContentTest expects.
C16_HomopolymerContentIsRunFraction ==
  "homopolymer_content" \in an_done =>
    LET s == StripBlanks(an_str1)
        inRun == {i \in 1..Len(s) : (i > 1 /\ s[i - 1] = s[i])
                                     \/ (i < Len(s) /\ s[i + 1] = s[i])}
    IN /\ s = <<>> => an_hc = 0
       /\ s # <<>> => an_hc = (Cardinality(inRun) * FixedScale) \div Len(s)
       /\ inRun = {} => an_hc = 0
       /\ \A t \in RepeatContentTests :
            an_str1 = t.seq => an_hc = t.expected

C16_Witness ==
  /\ "homopolymer_content" \in an_done
  /\ an_hc > 0
  /\ an_hc < FixedScale
  /\ Len(an_str1) <= MaxSeqLen

(***************************************************************************)
(* Properties of the stitching pipeline.                                   *)
(***************************************************************************)
\* The molecules that have a prediction, and the windows of one of them.
StitchedMolecules == {slot[1] : slot \in DOMAIN sp_input}
WindowsOf(m) == {slot[2] : slot \in {t \in DOMAIN sp_input : t[1] = m}}

\* C17: once the pipeline is done, every molecule with a prediction has a
\* record, every record's identifier is a molecule's name followed by
\* /ccs, its sequence holds vocabulary symbols only, and the bases of each
\* window stand in it at the place the window's rank among the molecule's
\* windows gives them.
C17_StitchedPerMolecule ==
  /\ \A r \in sp_fastq :
       /\ Len(r.id) > 4
       /\ SubSeq(r.id, Len(r.id) - 3, Len(r.id)) = <<"/", "c", "c", "s">>
       /\ SubSeq(r.id, 1, Len(r.id) - 4) \in StitchedMolecules
       /\ \A i \in 1..Len(r.sequence) :
            \E v \in 1..Len(VOCAB) : r.sequence[i] = VOCAB[v]
  /\ (~ENABLED NextSp) =>
       \A m \in StitchedMolecules :
         \E r \in sp_fastq :
           /\ r.id = m \o <<"/", "c", "c", "s">>
           /\ \A w \in WindowsOf(m) :
                LET before == Cardinality({u \in WindowsOf(m) : u < w})
                    bases == sp_input[<<m, w>>].prediction
                IN SubSeq(r.sequence, before * Len(bases) + 1,
                          (before + 1) * Len(bases)) = bases
           /\ \E p \in StitchPayloads :
                Len(r.sequence) = Len(p.prediction) * Cardinality(WindowsOf(m))

C17_Witness ==
  /\ Cardinality(sp_fastq) > 1
  /\ ~ENABLED NextSp
  /\ \E m \in StitchedMolecules :
       /\ Len(sp_groups[m]) > 1
       /\ sp_groups[m][1].window_pos > sp_groups[m][2].window_pos
       /\ sp_groups[m][1].prediction # sp_groups[m][2].prediction

(***************************************************************************)
(* Properties of the review generator.                                     *)
(***************************************************************************)
\* The bases of a string, whitespace apart, are those of another.
SameBases(a, b) ==
  LET BasesAt(s) == {i \in 1..Len(s) : s[i] # " "}
      Nth(s, k) == CHOOSE i \in BasesAt(s) :
                     Cardinality({j \in BasesAt(s) : j < i}) = k - 1
  IN /\ Cardinality(BasesAt(a)) = Cardinality(BasesAt(b))
     /\ \A k \in 1..Cardinality(BasesAt(a)) : a[Nth(a, k)] = b[Nth(b, k)]

\* An example passes every filter that is enabled.
PassesFilters(ex) ==
  LET pred == [i \in 1..Len(ex.deepconsensus_pred) |->
                 VOCAB[ex.deepconsensus_pred[i] + 1]]
      label == [i \in 1..Len(ex.label) |-> VOCAB[ex.label[i] + 1]]
  IN /\ cb_args.filter_fn_given => ex.accepted
     /\ cb_args.dc_errors_only => ~SameBases(pred, label)
     /\ cb_args.output_diff_ccs => ~SameBases(pred, ex.ccs_sequence)

\* C18: the examples yielded so far are exactly the examples delivered so
\* far that pass every enabled filter, in the order the dataset delivered
\* them.
C18_YieldsIffPassesFilters ==
  LET passing == {i \in 1..Len(cb_seen) : PassesFilters(cb_seen[i])}
  IN /\ Len(cb_yielded) = Cardinality(passing)
     /\ \A k \in 1..Len(cb_yielded) :
          /\ cb_yielded[k].position \in passing
          /\ Cardinality({i \in passing : i < cb_yielded[k].position}) = k - 1
          /\ cb_yielded[k].ccs_sequence
               = cb_seen[cb_yielded[k].position].ccs_sequence

C18_Witness ==
  /\ cb_pc = "exhausted"
  /\ cb_args.dc_errors_only /\ cb_args.output_diff_ccs
  /\ cb_args.filter_fn_given
  /\ Len(cb_seen) = MaxExamples
  /\ Len(cb_yielded) = 1
  /\ cb_yielded[1].position = MaxExamples
  /\ cb_seen[1].accepted
  /\ cb_seen[1].ccs_sequence # <<"A", " ">>

\* C19: the direct load is tried first; the checkpoint restore is called
\* only after the direct load failed with the structural-mismatch error
\* (AssertionError), and then once; an error of the restore, or any other
\* error of the direct load, reaches the caller, and then no example is
\* read or yielded.
C19_LoadFallsBackOnce ==
  cb_pc # "created" =>
    /\ cb_loaded.calls[1] = "load_weights"
    /\ Len(cb_loaded.calls) =
         (IF cb_checkpoint.load_weights = "AssertionError" THEN 2 ELSE 1)
    /\ Len(cb_loaded.calls) = 2 => cb_loaded.calls[2] = "restore"
    /\ (cb_pc = "raised") <=>
         \/ cb_checkpoint.load_weights \notin {"ok", "AssertionError"}
         \/ /\ cb_checkpoint.load_weights = "AssertionError"
            /\ cb_checkpoint.restore # "ok"
    /\ cb_pc = "raised" =>
         /\ cb_loaded.err # ""
         /\ cb_seen = <<>>
         /\ cb_yielded = <<>>
         /\ ~ENABLED NextCb

C19_Witness ==
  /\ cb_pc = "raised"
  /\ cb_loaded.calls = <<"load_weights", "restore">>
  /\ cb_loaded.err = "NotFoundError"

(***************************************************************************)
(* Properties of the result table.                                         *)
(***************************************************************************)
\* The files matched, experiment after experiment of the list.
MatchedCsvs ==
  Concat([k \in 1..Len(gr_experiments) |->
            Glob(gr_files, gr_experiments[k])])

\* The table holds, for the k-th matched file, its first two data rows at
\* the places 2k-1 and 2k, tagged eval and hard_eval and with the file's
\* experiment and work unit; the tag columns come first and the columns
\* are those of the file and the two tags, each once.
TwoRowsPerCsv(df) ==
  /\ Len(df.rows) = 2 * Len(MatchedCsvs)
  /\ \A k \in 1..Len(MatchedCsvs) :
       \A i \in 1..2 :
         LET file == MatchedCsvs[k]
             row == df.rows[2 * (k - 1) + i]
         IN /\ Len(file.rows) >= i
            /\ \A j \in 1..Len(file.columns) :
                 row[file.columns[j]] = file.rows[i][file.columns[j]]
            /\ row["dataset_type"] = <<"eval", "hard_eval">>[i]
            /\ row["experiment_and_work_unit"]
                 = file.path[1] \o <<"/">> \o file.path[2]
  /\ Len(df.columns) >= 2
  /\ {df.columns[1], df.columns[2]}
       = {"experiment_and_work_unit", "dataset_type"}
  /\ \A i, j \in 1..Len(df.columns) : df.columns[i] = df.columns[j] => i = j
  /\ \A k \in 1..Len(MatchedCsvs) :
       {df.columns[i] : i \in 1..Len(df.columns)}
         = {MatchedCsvs[k].columns[j] : j \in 1..Len(MatchedCsvs[k].columns)}
           \cup {"experiment_and_work_unit", "dataset_type"}

\* C20: whenever the pattern matches a file, get_results_df returns a
\* table of exactly two rows per matched file (the file's first two data
\* rows, tagged eval then hard_eval and with its experiment and work unit),
\* in the order of the experiment list, with the two tag columns first and
\* no column lost or duplicated.
C20_TwoRowsPerMatchedCsv ==
  (gr_pc # "called" /\ MatchedCsvs # <<>>) =>
    /\ gr_pc = "returned"
    /\ TwoRowsPerCsv(gr_out)

(***************************************************************************)
(* Properties of convert_to_bases.                                         *)
(***************************************************************************)
\* A base string holds a real base: a symbol other than the gap or pad.
HoldsRealBase(bases) == \E j \in 1..Len(bases) : bases[j] # Blank

\* The strings returned are those of the rows of the base range that are
\* not entirely zero, in row order.
NonZeroRowsInOrder ==
  LET range == get_indices(cv_example.max_passes).base
      kept == {i \in (range[1] + 1)..range[2] :
                 \E j \in 1..Len(cv_example.rows[i]) :
                   cv_example.rows[i][j] # 0}
  IN /\ Len(cv_out.subread_bases) = Cardinality(kept)
     /\ \A i \in kept :
          LET k == Cardinality({h \in kept : h <= i})
          IN \A j \in 1..Len(cv_example.rows[i]) :
               cv_out.subread_bases[k][j] = VOCAB[cv_example.rows[i][j] + 1]

\* C21: convert_to_bases returns, in row order, the strings of the rows of
\* the base range that are not entirely zero, and among them the bases of
\* every subread of the record that holds a real base, none dropped.
C21_NoRealSubreadDropped ==
  cv_pc = "converted" =>
    /\ NonZeroRowsInOrder
    /\ SelectSeq(cv_out.subread_bases, HoldsRealBase)
         = SelectSeq([k \in 1..Len(cv_dc_input.subreads) |->
                        cv_dc_input.subreads[k].bases], HoldsRealBase)

(***************************************************************************)
(* Properties of an inference.csv read back.                               *)
(***************************************************************************)
\* The tag get_results_df is to give the row of a dataset.
DatasetTypeOf(path) ==
  IF path = rb_params.eval_path THEN "eval" ELSE "hard_eval"

\* C29: get_results_df accepts every inference.csv that
\* run_inference_and_write_results writes, with two data rows (hard_eval_path
\* configured) or one (not configured): it raises nothing and returns one
\* row per evaluated dataset, tagged with the dataset it was computed on.
C29_WrittenCsvIsAccepted ==
  rb_pc \in {"returned", "raised"} =>
    LET paths == EvalPaths(rb_params)
    IN /\ rb_pc = "returned"
       /\ Len(rb_out.rows) = Len(paths)
       /\ \A i \in 1..Len(paths) :
            /\ rb_out.rows[i]["dataset"] = paths[i]
            /\ rb_out.rows[i]["dataset_type"] = DatasetTypeOf(paths[i])
            /\ rb_out.rows[i]["loss"] = rb_histories[i][1] * FixedScale
            /\ rb_out.rows[i]["acc"] = rb_histories[i][2] * FixedScale

(***************************************************************************)
(* Properties of the generators' params.                                   *)
(***************************************************************************)
ReviewKeys == {"num_epochs", "batch_size", "default_batch_size", "buffer_size"}

\* C30: once dataset_generator_fn or run_models_and_view_predictions has
\* been started, the caller's params still hold the num_epochs, batch_size,
\* default_batch_size and buffer_size the caller set, and only the
\* generator's frozen copy holds the review values 1, 1, 1, 100.
C30_CallerParamsUnchanged ==
  dg_pc \in {"running", "exhausted"} =>
    /\ \A k \in ReviewKeys : dg_params[k] = dg_given[k]
    /\ dg_frozen = [num_epochs |-> 1, batch_size |-> 1,
                    default_batch_size |-> 1, buffer_size |-> 100]

====
